---- MODULE Spec2Model ----
(***************************************************************************)
(* Model of ome-zarr-converters-tools' tile placement and lazy compositing *)
(*                                                                         *)
(*   - the lazy compositor (core/_dask_lazy_loader.py) together with the   *)
(*     task executor it hands its graph to;                                *)
(*   - the legacy placement pipeline (_stitching.py, _grid_utils.py,       *)
(*     v1/_tile.py).                                                       *)
(*                                                                         *)
(* Coordinates are integers.  Indices that the code exposes (chunk indices,*)
(* loader indices, array coordinates) keep the code's 0-based values.      *)
(***************************************************************************)
EXTENDS Integers, Sequences, FiniteSets, TLC

Max(a, b) == IF a >= b THEN a ELSE b

Min(a, b) == IF a <= b THEN a ELSE b

Abs(a) == IF a < 0 THEN 0 - a ELSE a

(* itertools.product over a sequence of sets: the set of tuples *)
RECURSIVE TupleProduct(_)
TupleProduct(S) ==
    IF S = <<>> THEN {<<>>}
    ELSE {<<h>> \o t : h \in Head(S), t \in TupleProduct(Tail(S))}

(***************************************************************************)
(* Arrays: a shape and a value per coordinate tuple (0-based).             *)
(***************************************************************************)
Box(shape) == TupleProduct([ax \in 1..Len(shape) |-> 0..(shape[ax] - 1)])

(* Python slice.indices(length) for an integer (start, stop) and step 1 *)
ClampIndex(i, length) ==
    IF i < 0 THEN Max(i + length, 0) ELSE Min(i, length)

NormalizeSlice(s, dim_size) ==
    <<ClampIndex(s[1], dim_size), ClampIndex(s[2], dim_size)>>

(* 2^16: the value range of the default dtype "uint16" *)
DTypeMod == 65536

(* the number of values of an unsigned integer dtype *)
DTypeRange(dtype) == IF dtype = "uint8" THEN 256 ELSE DTypeMod

(* conversion of a value stored into an array of dtype *)
Cast(v, dtype) == v % DTypeRange(dtype)

(* the dtype a call that names none declares for the output (the default  *)
(* of lazy_array_from_regions)                                             *)
OutDType == "uint16"

(* numpy.full(shape, fill_value, dtype) *)
NpFull(shape, fill_value, dtype) ==
    [shape |-> shape, val |-> [c \in Box(shape) |-> Cast(fill_value, dtype)],
     err |-> FALSE, dtype |-> dtype]

(* data[slices]: basic slicing, one (start, stop) slice per axis *)
GetItem(data, slices) ==
    LET norm == [ax \in 1..Len(slices) |-> NormalizeSlice(slices[ax], data.shape[ax])]
        shp  == [ax \in 1..Len(slices) |-> Max(0, norm[ax][2] - norm[ax][1])]
    IN [shape |-> shp,
        val |-> [c \in Box(shp) |->
                  data.val[[ax \in 1..Len(slices) |-> c[ax] + norm[ax][1]]]],
        err |-> data.err,
        dtype |-> data.dtype]

(* out[slices] = data: element-wise store with conversion to out's dtype.  *)
(* numpy broadcasts the source to the target: an axis of the source of     *)
(* size 1 is repeated along the target's axis; any other difference of     *)
(* the two shapes is numpy's "could not broadcast" error                   *)
SetItem(out, slices, data) ==
    LET norm == [ax \in 1..Len(slices) |-> NormalizeSlice(slices[ax], out.shape[ax])]
        shp  == [ax \in 1..Len(slices) |-> Max(0, norm[ax][2] - norm[ax][1])]
        inside(c) == \A ax \in 1..Len(slices) :
                        c[ax] >= norm[ax][1] /\ c[ax] < norm[ax][2]
        broadcastable == /\ Len(data.shape) = Len(shp)
                         /\ \A ax \in 1..Len(shp) :
                                data.shape[ax] = shp[ax] \/ data.shape[ax] = 1
        src(c) == [ax \in 1..Len(slices) |->
                      IF data.shape[ax] = 1 THEN 0 ELSE c[ax] - norm[ax][1]]
    IN IF ~broadcastable
       THEN [out EXCEPT !.err = TRUE]
       ELSE [shape |-> out.shape,
             val |-> [c \in Box(out.shape) |->
                       IF inside(c) THEN Cast(data.val[src(c)], out.dtype)
                       ELSE out.val[c]],
             err |-> out.err \/ data.err,
             dtype |-> out.dtype]

(***************************************************************************)
(* core/_dask_lazy_loader.py                                               *)
(***************************************************************************)

(* the (start, stop) of every chunk along one axis *)
AxisChunkRanges(dim_size, chunk_size) ==
    [k \in 1..((dim_size + chunk_size - 1) \div chunk_size) |->
        <<(k - 1) * chunk_size, Min((k - 1) * chunk_size + chunk_size, dim_size)>>]

BuildChunkRanges(shape, chunks) ==
    [ax \in 1..Len(shape) |-> AxisChunkRanges(shape[ax], chunks[ax])]

(* bisect on a sorted list *)
BisectRight(a, x) == Cardinality({k \in 1..Len(a) : a[k] <= x})

BisectLeft(a, x) == Cardinality({k \in 1..Len(a) : a[k] < x})

(* as ChunkIdxRange, with the last spanned chunk left out *)
ChunkIdxRangeShort(axis_ranges, lb_ax) ==
    LET chunk_starts == [k \in 1..Len(axis_ranges) |-> axis_ranges[k][1]]
        first == BisectRight(chunk_starts, lb_ax[1]) - 1
        last  == BisectLeft(chunk_starts, lb_ax[2]) - 1
    IN Max(0, first)..(Min(last, Len(axis_ranges)) - 1)

(* the chunk indices one loader spans along one axis *)
ChunkIdxRange(axis_ranges, lb_ax) ==
    LET chunk_starts == [k \in 1..Len(axis_ranges) |-> axis_ranges[k][1]]
        first == BisectRight(chunk_starts, lb_ax[1]) - 1
        last  == BisectLeft(chunk_starts, lb_ax[2])
    IN Max(0, first)..(Min(last, Len(axis_ranges)) - 1)

(* every chunk index of the array *)
ChunkIndices(chunk_ranges) ==
    TupleProduct([ax \in 1..Len(chunk_ranges) |-> 0..(Len(chunk_ranges[ax]) - 1)])

(* chunk index -> loader indices (ascending), <<>> where the dict has no entry *)
BuildChunkToLoaders(chunk_ranges, all_loader_bounds) ==
    [chunk_idx \in ChunkIndices(chunk_ranges) |->
        LET Spans(li) == \A ax \in 1..Len(chunk_ranges) :
                chunk_idx[ax] \in ChunkIdxRange(chunk_ranges[ax],
                                                all_loader_bounds[li + 1][ax])
        IN SelectSeq([k \in 1..Len(all_loader_bounds) |-> k - 1], Spans)]

(* _composite_chunk: loader_args is the sequence of (array, bounds) pairs *)
RECURSIVE CompositeLoop(_, _, _, _)
CompositeLoop(out, chunk_bounds, loader_args, i) ==
    IF i > Len(loader_args) THEN out
    ELSE LET data  == loader_args[i].data
             lb    == loader_args[i].bounds
             nd    == Len(chunk_bounds)
             inter == [ax \in 1..nd |->
                         <<Max(chunk_bounds[ax][1], lb[ax][1]),
                           Min(chunk_bounds[ax][2], lb[ax][2])>>]
             src_slices == [ax \in 1..nd |->
                         <<inter[ax][1] - lb[ax][1], inter[ax][2] - lb[ax][1]>>]
             dst_slices == [ax \in 1..nd |->
                         <<inter[ax][1] - chunk_bounds[ax][1],
                           inter[ax][2] - chunk_bounds[ax][1]>>]
         IN CompositeLoop(SetItem(out, dst_slices, GetItem(data, src_slices)),
                          chunk_bounds, loader_args, i + 1)

(* as CompositeChunk, with the loaders applied in reverse order *)
CompositeChunkFirstWins(chunk_bounds, dtype, fill_value, loader_args) ==
    LET chunk_shape == [ax \in 1..Len(chunk_bounds) |->
                          chunk_bounds[ax][2] - chunk_bounds[ax][1]]
        n == Len(loader_args)
    IN CompositeLoop(NpFull(chunk_shape, fill_value, dtype), chunk_bounds,
                     [k \in 1..n |-> loader_args[n + 1 - k]], 1)

CompositeChunk(chunk_bounds, dtype, fill_value, loader_args) ==
    LET chunk_shape == [ax \in 1..Len(chunk_bounds) |->
                          chunk_bounds[ax][2] - chunk_bounds[ax][1]]
    IN CompositeLoop(NpFull(chunk_shape, fill_value, dtype), chunk_bounds, loader_args, 1)

(* dask_base.tokenize(shape, chunks, dtype, fill_value, all_loader_bounds): *)
(* a deterministic digest of exactly these five values                     *)
Tokenize(shape, chunks, dtype, fill_value, all_loader_bounds) ==
    [shape |-> shape, chunks |-> chunks, dtype |-> dtype,
     fill_value |-> fill_value, bounds |-> all_loader_bounds]

(* graph keys: (layer name, index tuple); a layer name is prefix-token *)
LoaderKey(token, li) == << <<"loader", token>>, <<li>> >>

OutKey(token, chunk_idx) == << <<"lazy-regions", token>>, chunk_idx >>

FillKey(token, chunk_shape) == << <<"fill", token>>, chunk_shape >>

(* a task argument that names the loader's graph key (resolved by the executor) *)
LoaderRefInline(token, li) == [kind |-> "task", key |-> LoaderKey(token, li), li |-> li]

LoaderRef(token, li) == [kind |-> "key", key |-> LoaderKey(token, li), li |-> li]

(* all_loader_bounds: the per-region slices as explicit (start, stop) pairs *)
AllLoaderBounds(slices_list, shape) ==
    [r \in 1..Len(slices_list) |->
        [ax \in 1..Len(slices_list[r]) |->
            NormalizeSlice(slices_list[r][ax], shape[ax])]]

(* as LoaderLayer, holding under each key the array loader() returned *)
LoaderLayerEager(token, n_regions) ==
    [k \in {LoaderKey(token, li) : li \in 0..(n_regions - 1)} |->
        [kind |-> "loaded", li |-> k[2][1]]]

(* the loader layer: one graph key per region, holding the task (loader,) *)
LoaderLayer(token, n_regions) ==
    [k \in {LoaderKey(token, li) : li \in 0..(n_regions - 1)} |->
        [kind |-> "loader", li |-> k[2][1]]]

(* the task of one output chunk (cases 1, 2a, 2b, 3) *)
OutputTask(token, chunk_bounds, loader_indices, all_loader_bounds, dtype, fill_value) ==
    LET nd == Len(chunk_bounds)
        chunk_shape == [ax \in 1..nd |-> chunk_bounds[ax][2] - chunk_bounds[ax][1]]
        none == [kind |-> "none", fill_key |-> <<>>, chunk_shape |-> chunk_shape,
                 chunk_bounds |-> chunk_bounds, dtype |-> dtype, fill_value |-> fill_value,
                 src_slices |-> <<>>, refs |-> <<>>, bounds |-> <<>>]
    IN IF loader_indices = <<>>
       THEN [none EXCEPT !.kind = "alias", !.fill_key = FillKey(token, chunk_shape)]
       ELSE IF Len(loader_indices) = 1
       THEN LET li == loader_indices[1]
                lb == all_loader_bounds[li + 1]
                fully_covers == \A ax \in 1..nd :
                    lb[ax][1] <= chunk_bounds[ax][1] /\ chunk_bounds[ax][2] <= lb[ax][2]
            IN IF fully_covers
               THEN [none EXCEPT !.kind = "getitem",
                        !.refs = <<LoaderRef(token, li)>>,
                        !.src_slices = [ax \in 1..nd |->
                            <<chunk_bounds[ax][1] - lb[ax][1],
                              chunk_bounds[ax][2] - lb[ax][1]>>]]
               ELSE [none EXCEPT !.kind = "composite",
                        !.refs = <<LoaderRef(token, li)>>,
                        !.bounds = <<lb>>]
       ELSE [none EXCEPT !.kind = "composite",
                !.refs = [k \in 1..Len(loader_indices) |->
                             LoaderRef(token, loader_indices[k])],
                !.bounds = [k \in 1..Len(loader_indices) |->
                             all_loader_bounds[loader_indices[k] + 1]]]

(* the output layer: one key per chunk plus the shared fill keys *)
OutputLayer(token, chunk_ranges, chunk_to_loaders, all_loader_bounds, dtype, fill_value) ==
    LET idxs == ChunkIndices(chunk_ranges)
        cb(chunk_idx) == [ax \in 1..Len(chunk_ranges) |->
                            chunk_ranges[ax][chunk_idx[ax] + 1]]
        task(chunk_idx) == OutputTask(token, cb(chunk_idx), chunk_to_loaders[chunk_idx],
                                      all_loader_bounds, dtype, fill_value)
        empties == {ci \in idxs : chunk_to_loaders[ci] = <<>>}
        fill_keys == {task(ci).fill_key : ci \in empties}
        out_keys == {OutKey(token, ci) : ci \in idxs}
    IN [k \in out_keys \cup fill_keys |->
          IF k \in out_keys
          THEN task(k[2])
          ELSE [task(CHOOSE ci \in empties : task(ci).fill_key = k)
                  EXCEPT !.kind = "full", !.fill_key = <<>>]]

(* as PlanToken, digesting the slices as the caller wrote them *)
PlanTokenRawSlices(regions, shape, chunks, dtype, fill_value) ==
    Tokenize(shape, chunks, dtype, fill_value, regions)

(* token = dask_base.tokenize(shape, chunks, dtype, fill_value, all_loader_bounds) *)
PlanToken(regions, shape, chunks, dtype, fill_value) ==
    Tokenize(shape, chunks, dtype, fill_value, AllLoaderBounds(regions, shape))

(* as AxisCountError, refusing only a chunk shape with too few axes *)
AxisCountErrorShortChunks(regions, shape, chunks) ==
    IF Len(chunks) < Len(shape) THEN "ValueError"
    ELSE IF \E r \in 1..Len(regions) : Len(regions[r]) # Len(shape) THEN "IndexError"
    ELSE "none"

(* the exception an axis-count mismatch ends the construction with: the   *)
(* ValueError of the chunks check, the IndexError of shape[ax] for a       *)
(* region with more slices than axes (all_loader_bounds) and of lb[ax] for *)
(* a region with fewer (_build_chunk_to_loaders)                           *)
AxisCountError(regions, shape, chunks) ==
    IF Len(chunks) # Len(shape) THEN "ValueError"
    ELSE IF \E r \in 1..Len(regions) : Len(regions[r]) > Len(shape) THEN "IndexError"
    ELSE IF \E r \in 1..Len(regions) : Len(regions[r]) < Len(shape) THEN "IndexError"
    ELSE "none"

(* lazy_array_from_regions: the plan, or the exception that ended the construction *)
LazyArrayFromRegions(regions, shape, chunks, dtype, fill_value) ==
    IF AxisCountError(regions, shape, chunks) # "none"
    THEN [error |-> AxisCountError(regions, shape, chunks)]
    ELSE LET all_loader_bounds == AllLoaderBounds(regions, shape)
             chunk_ranges == BuildChunkRanges(shape, chunks)
             token == PlanToken(regions, shape, chunks, dtype, fill_value)
             chunk_to_loaders == BuildChunkToLoaders(chunk_ranges, all_loader_bounds)
         IN [error |-> "none",
             token |-> token,
             loader_layer |-> LoaderLayer(token, Len(regions)),
             output_layer |-> OutputLayer(token, chunk_ranges, chunk_to_loaders,
                                          all_loader_bounds, dtype, fill_value),
             out_keys |-> {OutKey(token, ci) : ci \in ChunkIndices(chunk_ranges)},
             chunks_normalized |->
                 [ax \in 1..Len(shape) |->
                     [k \in 1..Len(chunk_ranges[ax]) |->
                         chunk_ranges[ax][k][2] - chunk_ranges[ax][k][1]]]]

(***************************************************************************)
(* The loaders and the task executor (external collaborators).             *)
(***************************************************************************)

(* a position inside a loader's array as one number, e.g. <<1, 2>> -> 12 *)
RECURSIVE CoordCode(_)
CoordCode(c) == IF c = <<>> THEN 0 ELSE 10 * CoordCode(SubSeq(c, 1, Len(c) - 1)) + c[Len(c)]

(* what loader li returns: an array of its region's size and of the dtype  *)
(* of the loader's own choosing, whose values name the loader and the      *)
(* position inside it                                                      *)
LoaderData(li, slices, dtype) ==
    LET shp == [ax \in 1..Len(slices) |-> Max(0, slices[ax][2] - slices[ax][1])]
    IN [shape |-> shp,
        val |-> [c \in Box(shp) |-> (100 * (li + 1) + CoordCode(c)) % DTypeRange(dtype)],
        err |-> FALSE,
        dtype |-> dtype]

VARIABLES
    c_in,      \* the arguments of lazy_array_from_regions
    c_pc,      \* "new", "built", "failed", "computing"
    graph,     \* the plan lazy_array_from_regions returned
    wanted,    \* the output keys the current materialization asked for
    cache,     \* executor: node key -> result, one entry per finished node
    running,   \* executor: loader nodes started and not yet finished
    calls,     \* calls[li + 1]: how often loader li has been invoked
    replan,    \* a second construction: its arguments and the plan it returned
    p_in,      \* placement: the call (entry point, tiles, mode, corrections)
    p_pc,      \* placement: the statement the call has reached
    p_tiles,   \* placement: the local variable tiles
    p_mode,    \* placement: the mode resolve_tiles_overlap reports (_mode)
    p_grid,    \* placement: what check_if_regular_grid returned
    f_loop,    \* placement: i, j and n_overlap of resolve_random_tiles_overlap
    p_err,     \* placement: the exception that reached the caller, or "none"
    p_shape,   \* placement: the (y, x) canvas shape _find_shape derived
    p_offsets, \* placement: the instructions _find_tiling returned
    p_caller,  \* placement: the caller's own tile objects as they are now
    p_reg,     \* placement: _registration_registry and the step the loop is at
    t_in,      \* task: the call (entry point and what the environment will do)
    t_pc,      \* task: the statement the call has reached
    t_file,    \* task: whether the serialized tiled image exists on disk
    t_trace,   \* task: what the call has done so far, in order
    t_loop,    \* task: the loop indices t of the task and of the loader it calls
    g_in,      \* grid analysis: the lattice handed to check_if_regular_grid
    g_pc,      \* grid analysis: "new", "analyzed", "snapped", "rechecked", "resnapped"
    g_out,     \* grid analysis: what check_if_regular_grid returned
    g_snap,    \* grid analysis: what resolve_grid_tiles_overlap returned
    g_recheck, \* grid analysis: check_if_regular_grid on the snapped tiles
    g_resnap   \* grid analysis: resolve_grid_tiles_overlap on the snapped tiles

compVars == <<c_in, c_pc, graph, wanted, cache, running, calls, replan>>

placeVars ==
    <<p_in, p_pc, p_tiles, p_mode, p_grid, f_loop, p_err, p_shape, p_offsets, p_caller,
      p_reg>>

gridVars == <<g_in, g_pc, g_out, g_snap, g_recheck, g_resnap>>

taskVars == <<t_in, t_pc, t_file, t_trace, t_loop>>

vars == <<compVars, placeVars, gridVars, taskVars>>

(* the values of the parts of the state a specification does not exercise *)
NoCall == [entry |-> "none"]

NoGridResult == [err |-> "unchecked"]

NoLoop == [i |-> 0, j |-> 0, n_overlap |-> 0]

NoSnap == [err |-> "unsnapped", tiles |-> <<>>]

NoRetry == [task |-> 0, loader |-> 0]

NoCaller == [alias |-> FALSE, tiles |-> <<>>, copied |-> {}]

(* _registration_registry as the module defines it: the function of every  *)
(* step name, a function written as its __name__                           *)
RegistrationRegistry ==
    [name \in {"align_to_pixel_grid", "fov_alignment_corrections", "remove_offsets",
               "tile_regions"} |->
        CASE name = "align_to_pixel_grid" -> "apply_align_to_pixel_grid"
          [] name = "fov_alignment_corrections" -> "apply_fov_alignment_corrections"
          [] name = "remove_offsets" -> "apply_remove_offsets"
          [] OTHER -> "apply_mosaic_tiling"]

(* the registry of a process that has registered nothing, before any step *)
NoRegistration == [registry |-> RegistrationRegistry, step |-> 1]

CompIdle ==
    /\ c_in = [regions |-> <<>>]
    /\ c_pc = "idle"
    /\ graph = [error |-> "unbuilt"]
    /\ wanted = {}
    /\ cache = <<>>
    /\ running = {}
    /\ calls = <<>>
    /\ replan = [graph |-> [error |-> "unbuilt"]]

PlaceIdle ==
    /\ p_in = NoCall
    /\ p_pc = "idle"
    /\ p_tiles = <<>>
    /\ p_mode = "unset"
    /\ p_grid = NoGridResult
    /\ f_loop = NoLoop
    /\ p_err = "none"
    /\ p_shape = <<>>
    /\ p_offsets = <<>>
    /\ p_caller = NoCaller
    /\ p_reg = NoRegistration

TaskIdle ==
    /\ t_in = NoCall
    /\ t_pc = "idle"
    /\ t_file = FALSE
    /\ t_trace = <<>>
    /\ t_loop = NoRetry

GridIdle ==
    /\ g_in = NoCall
    /\ g_pc = "idle"
    /\ g_out = NoGridResult
    /\ g_snap = NoSnap
    /\ g_recheck = NoGridResult
    /\ g_resnap = NoSnap

NoGraph == [error |-> "unbuilt"]

(* the node table the executor sees: both layers of the graph *)
Nodes == graph.loader_layer @@ graph.output_layer

(* the keys a task needs before it can run *)
Deps(task) ==
    IF task.kind = "alias" THEN {task.fill_key}
    ELSE IF task.kind \in {"getitem", "composite"}
    THEN {task.refs[k].key : k \in {j \in 1..Len(task.refs) : task.refs[j].kind = "key"}}
    ELSE {}

Needed(k) == k \in wanted \/ \E w \in wanted : k \in Deps(Nodes[w])

(* the array the loader of region li returns when it is called: of the    *)
(* size of its region, and for the planes of a FOV group (region.load_data) *)
(* of the size of the plane                                                *)
LoaderArray(li) ==
    LoaderData(li,
               IF "rois" \in DOMAIN c_in
               THEN [ax \in DOMAIN c_in.rois[li + 1].length |->
                        <<0, c_in.rois[li + 1].length[ax]>>]
               ELSE AllLoaderBounds(c_in.regions, c_in.shape)[li + 1],
               c_in.loader_dtype)

(* the value of a task argument: a finished node's result, or a nested task run in place *)
ArgValue(ref) ==
    IF ref.kind = "key" THEN cache[ref.key] ELSE LoaderArray(ref.li)

(* how many of refs[1..k] are nested (loader,) tasks calling loader li *)
RECURSIVE InlineCalls(_, _, _)
InlineCalls(refs, li, k) ==
    IF k = 0 THEN 0
    ELSE InlineCalls(refs, li, k - 1)
         + (IF refs[k].kind = "task" /\ refs[k].li = li THEN 1 ELSE 0)

(* the result of an output-layer task once its dependencies are in the cache *)
TaskResult(task) ==
    IF task.kind = "alias" THEN cache[task.fill_key]
    ELSE IF task.kind = "full" THEN NpFull(task.chunk_shape, task.fill_value, task.dtype)
    ELSE IF task.kind = "getitem" THEN GetItem(ArgValue(task.refs[1]), task.src_slices)
    ELSE CompositeChunk(task.chunk_bounds, task.dtype, task.fill_value,
                        [k \in 1..Len(task.refs) |->
                            [data |-> ArgValue(task.refs[k]), bounds |-> task.bounds[k]]])

(* how often the construction of plan g invoked loader li: a layer entry   *)
(* that holds an array instead of the task (loader,) was made by a call    *)
CallsWhileBuilding(g, li) ==
    IF g.error # "none" THEN 0
    ELSE Cardinality({k \in DOMAIN g.loader_layer :
                        g.loader_layer[k].li = li /\ g.loader_layer[k].kind = "loaded"})

(* lazy_array_from_regions(regions, shape, chunks, dtype, fill_value) *)
Construct ==
    /\ c_pc = "new"
    /\ LET g == LazyArrayFromRegions(c_in.regions, c_in.shape, c_in.chunks,
                                     c_in.dtype, c_in.fill_value)
       IN /\ graph' = g
          /\ c_pc' = IF g.error = "none" THEN "built" ELSE "failed"
          /\ calls' = [i \in DOMAIN calls |-> calls[i] + CallsWhileBuilding(g, i - 1)]
    /\ UNCHANGED <<c_in, wanted, cache, running>>
    /\ UNCHANGED replan
    /\ UNCHANGED <<placeVars, gridVars, taskVars>>

(* one materialization: compute of any non-empty set of output chunks *)
Compute ==
    /\ c_pc = "built"
    /\ \E S \in (SUBSET graph.out_keys) \ {{}} : wanted' = S
    /\ c_pc' = "computing"
    /\ UNCHANGED <<c_in, graph, cache, running, calls>>
    /\ UNCHANGED replan
    /\ UNCHANGED <<placeVars, gridVars, taskVars>>

(* the executor starts a loader node: the loader is invoked *)
StartLoader ==
    /\ c_pc = "computing"
    /\ \E k \in DOMAIN graph.loader_layer :
         /\ Needed(k)
         /\ k \notin DOMAIN cache
         /\ k \notin running
         /\ running' = running \cup {k}
         /\ calls' = [calls EXCEPT ![graph.loader_layer[k].li + 1] = @ + 1]
    /\ UNCHANGED <<c_in, c_pc, graph, wanted, cache>>
    /\ UNCHANGED replan
    /\ UNCHANGED <<placeVars, gridVars, taskVars>>

(* a loader node finishes: its array is memoized under its key *)
FinishLoader ==
    /\ c_pc = "computing"
    /\ \E k \in running :
         LET li == graph.loader_layer[k].li
         IN /\ cache' = cache @@ (k :> LoaderArray(li))
            /\ running' = running \ {k}
    /\ UNCHANGED <<c_in, c_pc, graph, wanted, calls>>
    /\ UNCHANGED replan
    /\ UNCHANGED <<placeVars, gridVars, taskVars>>

(* the executor runs an output-layer node whose dependencies are finished *)
RunTask ==
    /\ c_pc = "computing"
    /\ \E k \in DOMAIN graph.output_layer :
         LET task == graph.output_layer[k]
         IN /\ Needed(k)
            /\ k \notin DOMAIN cache
            /\ Deps(task) \subseteq DOMAIN cache
            /\ cache' = cache @@ (k :> TaskResult(task))
            /\ calls' = [i \in DOMAIN calls |->
                            calls[i] + InlineCalls(task.refs, i - 1, Len(task.refs))]
    /\ UNCHANGED <<c_in, c_pc, graph, wanted, running>>
    /\ UNCHANGED replan
    /\ UNCHANGED <<placeVars, gridVars, taskVars>>

(* bounds of the compositor inputs: a (2, 3) canvas cut into 1 to 4 chunks *)
MaxRegions == 2

CompShapes == {<<2, 3>>}

CompChunks(shape) == {<<cy, cx>> : cy \in 1..shape[1], cx \in 2..shape[2]}

(* the slices of one region, one (start, stop) per axis: full or partial   *)
(* height; full width, a part that straddles the chunk boundary, an empty  *)
(* slice inside a chunk and an empty slice at the origin                   *)
CompSlices(shape) ==
    {<<sy, sx>> : sy \in {<<a, shape[1]>> : a \in 0..(shape[1] - 1)},
                  sx \in {<<0, shape[2]>>, <<1, shape[2]>>, <<1, 1>>, <<0, 0>>}}

RECURSIVE SeqsUpTo(_, _)
SeqsUpTo(S, n) ==
    IF n = 0 THEN {<<>>}
    ELSE LET shorter == SeqsUpTo(S, n - 1)
         IN shorter \cup {Append(q, x) : q \in {r \in shorter : Len(r) = n - 1}, x \in S}

(* the canvas of the (100, 100) / chunk 40 scenario at 1/20 scale: chunks  *)
(* of 2, 2 and a ragged 1 per axis, one region covering the whole canvas   *)
ScenarioCompInput ==
    [shape |-> <<5, 5>>, chunks |-> <<2, 2>>, regions |-> << <<<<0, 5>>, <<0, 5>>>> >>,
     dtype |-> OutDType, fill_value |-> 0, loader_dtype |-> OutDType]

(* slices written with negative and overshooting indices: both are the    *)
(* box (0, 2) x (1, 3) of the (2, 3) canvas                                *)
RawSlices == {<<<<-2, 2>>, <<1, 7>>>>, <<<<0, 5>>, <<-2, 3>>>>}

(* arguments whose axis counts disagree: a chunk shape or a region with    *)
(* one axis too few or one too many for the (2, 3) canvas                  *)
MismatchChunks == {<<2>>, <<1, 2>>, <<1, 2, 1>>}

MismatchSlices ==
    {<<<<0, 2>>>>, <<<<0, 2>>, <<0, 3>>>>, <<<<0, 2>>, <<0, 3>>, <<0, 1>>>>}

AxisMismatch(in) ==
    \/ Len(in.chunks) # Len(in.shape)
    \/ \E r \in 1..Len(in.regions) : Len(in.regions[r]) # Len(in.shape)

MismatchInputs ==
    {in \in {[shape |-> <<2, 3>>, chunks |-> ch, regions |-> rs,
              dtype |-> OutDType, fill_value |-> 0, loader_dtype |-> OutDType] :
                ch \in MismatchChunks, rs \in SeqsUpTo(MismatchSlices, MaxRegions)} :
        AxisMismatch(in)}

(* one region whose loader returns 8-bit data (a uint8 image file) while   *)
(* the call declares the 16-bit output dtype                               *)
NarrowLoaderInputs ==
    {[shape |-> sh, chunks |-> ch, regions |-> <<sl>>, dtype |-> OutDType,
      fill_value |-> 0, loader_dtype |-> "uint8"] :
        sh \in CompShapes, ch \in UNION {CompChunks(s) : s \in CompShapes},
        sl \in UNION {CompSlices(s) : s \in CompShapes}}

CompInputs ==
    {ScenarioCompInput} \cup MismatchInputs \cup NarrowLoaderInputs \cup
    {[shape |-> sh, chunks |-> ch, regions |-> rs, dtype |-> OutDType, fill_value |-> 0,
      loader_dtype |-> OutDType] :
        sh \in CompShapes, ch \in UNION {CompChunks(s) : s \in CompShapes},
        rs \in SeqsUpTo(RawSlices, MaxRegions) \ {<<>>}} \cup
    {[shape |-> sh, chunks |-> ch, regions |-> rs, dtype |-> OutDType, fill_value |-> fv,
      loader_dtype |-> OutDType] :
        sh \in CompShapes, ch \in UNION {CompChunks(s) : s \in CompShapes},
        rs \in UNION {SeqsUpTo(CompSlices(s), MaxRegions) : s \in CompShapes},
        fv \in {0}}

(* lazy_array_from_regions called once more, by a caller whose arguments   *)
(* have the same shape, chunks, dtype, fill value and region bounds: the   *)
(* loaders are other callables and the slices may be written differently   *)
Reconstruct ==
    /\ c_pc = "built"
    /\ \E c2 \in CompInputs :
         /\ c2.shape = c_in.shape
         /\ c2.chunks = c_in.chunks
         /\ c2.dtype = c_in.dtype
         /\ c2.fill_value = c_in.fill_value
         /\ c2.loader_dtype = c_in.loader_dtype
         /\ AxisCountError(c2.regions, c2.shape, c2.chunks) = "none"
         /\ AllLoaderBounds(c2.regions, c2.shape) = AllLoaderBounds(c_in.regions, c_in.shape)
         /\ replan' = [input |-> c2,
                       graph |-> LazyArrayFromRegions(c2.regions, c2.shape, c2.chunks,
                                                      c2.dtype, c2.fill_value)]
    /\ c_pc' = "rebuilt"
    /\ UNCHANGED <<c_in, graph, wanted, cache, running, calls>>
    /\ UNCHANGED <<placeVars, gridVars, taskVars>>

InitComp ==
    /\ c_in \in CompInputs
    /\ c_pc = "new"
    /\ graph = NoGraph
    /\ wanted = {}
    /\ cache = <<>>
    /\ running = {}
    /\ calls = [i \in 1..Len(c_in.regions) |-> 0]
    /\ replan = [graph |-> NoGraph]
    /\ PlaceIdle
    /\ GridIdle
    /\ TaskIdle

NextComp ==
    \/ Construct
    \/ Reconstruct
    \/ Compute
    \/ StartLoader
    \/ FinishLoader
    \/ RunTask

SpecComp == InitComp /\ [][NextComp]_vars

(***************************************************************************)
(* Writing one field of view with dask: TileFOVGroup.load_data_dask and    *)
(* the materialization of its array by image.set_roi                       *)
(***************************************************************************)

(* the largest number of planes (TileSlices) of one FOV group *)
MaxPlanes == 3

(* the name tile.to_roi() gives the ROI of every tile of the one field of  *)
(* view a group holds (group_by_fov groups by roi.name)                    *)
FovName == "FOV_0"

(* a TileSlice: the ROI of one plane on the axes (z, x), pixel size 1 *)
PlaneSlice(z, x, w) == [name |-> FovName, start |-> <<z, x>>, length |-> <<1, w>>]

(* roi_to_point_distance(roi, origin), squared: the root keeps the order *)
RoiToPointDistanceSquared(roi) ==
    (0 - roi.start[1]) * (0 - roi.start[1]) + (0 - roi.start[2]) * (0 - roi.start[2])

(* ref_slice(): the index of the first region closest to the origin *)
RefSlice(rois) ==
    CHOOSE k \in 1..Len(rois) :
        /\ \A j \in 1..Len(rois) :
               RoiToPointDistanceSquared(rois[k]) <= RoiToPointDistanceSquared(rois[j])
        /\ \A j \in 1..(k - 1) :
               RoiToPointDistanceSquared(rois[j]) > RoiToPointDistanceSquared(rois[k])

(* min_max_rois[name] = roi on a dict kept as a sequence in insertion      *)
(* order: the value of an existing key is replaced where the key stands    *)
DictSet(d, name, roi) ==
    IF \E k \in 1..Len(d) : d[k].name = name
    THEN [k \in 1..Len(d) |-> IF d[k].name = name THEN [name |-> name, roi |-> roi]
                                ELSE d[k]]
    ELSE Append(d, [name |-> name, roi |-> roi])

(* the first roi with the least start along ax (if start < min_); the      *)
(* start of a roi is always a number here, as Tile.to_roi and move_roi_by  *)
(* build it, so assert current_slice.start is not None passes              *)
MinRoi(rois, ax) ==
    rois[CHOOSE k \in 1..Len(rois) :
            /\ \A j \in 1..Len(rois) : rois[k].start[ax] <= rois[j].start[ax]
            /\ \A j \in 1..(k - 1) : rois[j].start[ax] > rois[k].start[ax]]

(* a length that is None: the slice has no end *)
NoLength == -1

(* RoiSlice.end: None (here NoLength) without a length *)
RoiSliceEnd(start, length) == IF length = NoLength THEN NoLength ELSE start + length

(* self.end or float("inf"): an end of None and an end of 0 are both      *)
(* falsy, so both count as no end at all                                   *)
EndIsInf(start, length) == RoiSliceEnd(start, length) \in {NoLength, 0}

(* the first roi with the greatest end along ax (if end > max_); the scan  *)
(* of the axis asserts that the end of every roi is not None, and an       *)
(* AssertionError leaves the function                                      *)
MaxRoi(rois, ax) ==
    LET end(k) == RoiSliceEnd(rois[k].start[ax], rois[k].length[ax])
    IN IF \E k \in 1..Len(rois) : end(k) = NoLength
       THEN [err |-> "AssertionError"]
       ELSE [err |-> "none",
             roi |-> rois[CHOOSE k \in 1..Len(rois) :
                            /\ \A j \in 1..Len(rois) : end(k) >= end(j)
                            /\ \A j \in 1..(k - 1) : end(j) < end(k)]]

(* min_max_rois after the axes 1..ax: the dict is keyed by roi.get_name(), *)
(* so rois of one name share one entry; a failed assertion on an axis ends *)
(* the loop over the axes                                                  *)
RECURSIVE MinMaxRois(_, _)
MinMaxRois(rois, ax) ==
    IF ax = 0 THEN [err |-> "none", dict |-> <<>>]
    ELSE LET before == MinMaxRois(rois, ax - 1)
             max_roi == MaxRoi(rois, ax)
         IN IF before.err # "none" THEN before
            ELSE IF max_roi.err # "none" THEN [err |-> max_roi.err, dict |-> <<>>]
            ELSE [err |-> "none",
                  dict |-> DictSet(DictSet(before.dict, MinRoi(rois, ax).name,
                                           MinRoi(rois, ax)),
                                   max_roi.roi.name, max_roi.roi)]

(* RoiSlice.union on one axis: from the lesser start to the greater end;   *)
(* with an end taken for infinite the length of the union is None          *)
RoiSliceUnionLength(sa, la, sb, lb) ==
    LET start == Min(sa, sb)
        end == Max(RoiSliceEnd(sa, la), RoiSliceEnd(sb, lb))
    IN IF EndIsInf(sa, la) \/ EndIsInf(sb, lb) THEN NoLength
       ELSE IF end > start THEN end - start ELSE 0

(* _join_roi_names *)
JoinRoiNames(name1, name2) == IF name1 = name2 THEN name1 ELSE name1 \o ":" \o name2

(* Roi.union: RoiSlice.union on every axis, the names joined *)
RoiUnion(a, b) ==
    [name |-> JoinRoiNames(a.name, b.name),
     start |-> [ax \in DOMAIN a.start |-> Min(a.start[ax], b.start[ax])],
     length |-> [ax \in DOMAIN a.start |->
                   RoiSliceUnionLength(a.start[ax], a.length[ax],
                                       b.start[ax], b.length[ax])]]

RECURSIVE UnionOfValues(_, _)
UnionOfValues(d, k) ==
    IF k = 1 THEN d[1].roi ELSE RoiUnion(UnionOfValues(d, k - 1), d[k].roi)

(* bulk_roi_union(rois): the union of the values of min_max_rois, or the   *)
(* AssertionError of the scan (assert end is not None) when a roi has a    *)
(* length of None on some axis                                             *)
BulkRoiUnion(rois) ==
    LET d == MinMaxRois(rois, Len(rois[1].start))
    IN IF d.err # "none" THEN [err |-> d.err]
       ELSE [err |-> "none", roi |-> UnionOfValues(d.dict, Len(d.dict))]

(* shape_from_rois: the error of bulk_roi_union, then its own              *)
(* assert length is not None on the slices of the union                    *)
ShapeFromRoisError(rois) ==
    LET union == BulkRoiUnion(rois)
    IN IF union.err # "none" THEN union.err
       ELSE IF \E ax \in DOMAIN union.roi.length : union.roi.length[ax] = NoLength
       THEN "AssertionError"
       ELSE "none"

(* shape_from_rois(rois, axes, pixel_size) when it raises nothing: the     *)
(* lengths of the union (the rois are in pixels, so to_pixel and ceil      *)
(* leave them as they are)                                                 *)
ShapeFromRois(rois) == BulkRoiUnion(rois).roi.length

(* _prepare_slice_loading: the slices of every region, moved by the offset *)
(* that brings the reference slice to the origin                           *)
PrepareSliceLoading(rois) ==
    LET ref == rois[RefSlice(rois)]
    IN [k \in 1..Len(rois) |->
          [ax \in 1..2 |->
              <<rois[k].start[ax] - ref.start[ax],
                rois[k].start[ax] - ref.start[ax] + rois[k].length[ax]>>]]

(* the planes of one FOV: distinct z, the same x and width *)
FovGroups ==
    {[k \in 1..Len(zs) |-> PlaneSlice(zs[k], x, w)] :
        zs \in {q \in SeqsUpTo(0..(MaxPlanes - 1), MaxPlanes) :
                   Len(q) > 0 /\ \A a, b \in 1..Len(q) : a # b => q[a] # q[b]},
        x \in {0, 1}, w \in {2, 3}}

FovCalls ==
    {[entry |-> "fov", rois |-> g, loader_dtype |-> dt, regions |-> <<>>, shape |-> <<>>,
      chunks |-> <<>>, dtype |-> "unset", fill_value |-> 0] :
        g \in FovGroups, dt \in {"uint8", "uint16"}}

(* group.load_data_dask(resource) with chunks = None: the shape is taken   *)
(* from the rois, the reference slice is loaded for its dtype and shape,   *)
(* then the lazy array is built                                            *)
LoadDataDask ==
    /\ c_pc = "fov_new"
    /\ IF ShapeFromRoisError(c_in.rois) # "none"
       THEN /\ graph' = [error |-> ShapeFromRoisError(c_in.rois)]
            /\ c_pc' = "failed"
            /\ UNCHANGED <<c_in, calls>>
       ELSE LET shape == ShapeFromRois(c_in.rois)
                ref == RefSlice(c_in.rois)
                slices == PrepareSliceLoading(c_in.rois)
                ref_data == LoaderData(ref - 1,
                                       [ax \in DOMAIN c_in.rois[ref].length |->
                                           <<0, c_in.rois[ref].length[ax]>>],
                                       c_in.loader_dtype)
                g == LazyArrayFromRegions(slices, shape, ref_data.shape, ref_data.dtype, 0)
            IN /\ c_in' = [c_in EXCEPT !.regions = slices, !.shape = shape,
                                       !.chunks = ref_data.shape, !.dtype = ref_data.dtype]
               /\ graph' = g
               /\ c_pc' = IF g.error = "none" THEN "built" ELSE "failed"
               /\ calls' = [i \in DOMAIN calls |->
                               calls[i] + (IF i = ref THEN 1 ELSE 0)
                                        + CallsWhileBuilding(g, i - 1)]
    /\ UNCHANGED <<wanted, cache, running>>
    /\ UNCHANGED replan
    /\ UNCHANGED <<placeVars, gridVars, taskVars>>

(* image.set_roi(roi, patch=group_data): every chunk of the array is written *)
SetRoi ==
    /\ c_pc = "built"
    /\ c_in.entry = "fov"
    /\ wanted' = graph.out_keys
    /\ c_pc' = "computing"
    /\ UNCHANGED <<c_in, graph, cache, running, calls>>
    /\ UNCHANGED replan
    /\ UNCHANGED <<placeVars, gridVars, taskVars>>

InitFov ==
    /\ c_in \in FovCalls
    /\ c_pc = "fov_new"
    /\ graph = NoGraph
    /\ wanted = {}
    /\ cache = <<>>
    /\ running = {}
    /\ calls = [i \in 1..Len(c_in.rois) |-> 0]
    /\ replan = [graph |-> NoGraph]
    /\ PlaceIdle
    /\ GridIdle
    /\ TaskIdle

NextFov ==
    \/ LoadDataDask
    \/ SetRoi
    \/ StartLoader
    \/ FinishLoader
    \/ RunTask

SpecFov == InitFov /\ [][NextFov]_vars

(***************************************************************************)
(* v1/_tile.py: tiles.  A tile is a record                                 *)
(*   x, y, z, t   the top-left corner (c is always 0)                      *)
(*   dx, dy       the XY components of the diagonal                        *)
(*   ox, oy, oz   the origin: the placement the tile was created at        *)
(*   id           the data loader the tile carries                         *)
(*   space        "real" or "pixel";  ps: the XY pixel size                *)
(* Coordinates are whole world units, so the rounding of _round_add and    *)
(* _round_sub leaves every sum and difference exact.                       *)
(***************************************************************************)

(* int(a / b) for b > 0: the quotient truncated towards zero *)
TruncDiv(a, b) == IF a >= 0 THEN a \div b ELSE 0 - ((0 - a) \div b)

(* a > num / den and a < num / den for an integer a and 0 < den *)
GtRat(a, num, den) == a > (num \div den)

LtRat(a, num, den) == a < 0 - ((0 - num) \div den)

(* Tile(...) with no origin given: the origin is the top-left corner *)
NewTile(x, y, z, t, dx, dy, ps, id) ==
    [x |-> x, y |-> y, z |-> z, t |-> t, dx |-> dx, dy |-> dy,
     ox |-> x, oy |-> y, oz |-> z, id |-> id, space |-> "real", ps |-> ps]

(* as DeriveFromDiag, with the origin set to the new corner *)
DeriveFromDiagNewOrigin(tile, x, y, z, t, dx, dy) ==
    [tile EXCEPT !.x = x, !.y = y, !.z = z, !.t = t, !.dx = dx, !.dy = dy,
                 !.ox = x, !.oy = y, !.oz = z]

(* Tile.derive_from_diag: a new tile that keeps origin, loader, space, pixel size *)
DeriveFromDiag(tile, x, y, z, t, dx, dy) ==
    [tile EXCEPT !.x = x, !.y = y, !.z = z, !.t = t, !.dx = dx, !.dy = dy]

(* Tile.move_by *)
MoveBy(tile, vx, vy, vz, vt) ==
    DeriveFromDiag(tile, tile.x + vx, tile.y + vy, tile.z + vz, tile.t + vt,
                   tile.dx, tile.dy)

(* Tile.reset_origin: Tile(..., origin=None) *)
ResetOrigin(tile) == [tile EXCEPT !.ox = tile.x, !.oy = tile.y, !.oz = tile.z]

(* Tile.to_pixel_space (the space check is made by the caller below) *)
ToPixelSpace(tile) ==
    [tile EXCEPT !.x = TruncDiv(tile.x, tile.ps), !.y = TruncDiv(tile.y, tile.ps),
                 !.dx = TruncDiv(tile.dx, tile.ps), !.dy = TruncDiv(tile.dy, tile.ps),
                 !.space = "pixel"]

(* Tile.is_coplanar on the modelled components *)
IsCoplanar(a, b) == a.z = b.z /\ a.t = b.t

(* Vector.lengthXY squared: lengths are only ever compared *)
LengthSqXY(vx, vy) == vx * vx + vy * vy

(* Tile.cornersXY, in the order the code lists them *)
CornersXY(tile) ==
    << <<tile.x, tile.y>>, <<tile.x, tile.y + tile.dy>>,
       <<tile.x + tile.dx, tile.y + tile.dy>>, <<tile.x + tile.dx, tile.y>> >>

(* Tile.areaXY *)
AreaXY(tile) == tile.dx * tile.dy

(* Tile.intersection_area_XY: the area, or the ValueError it raises for    *)
(* two tiles that are not coplanar                                         *)
IntersectionAreaXY(a, b) ==
    LET min_x == Max(a.x, b.x)
        min_y == Max(a.y, b.y)
        max_x == Min(a.x + a.dx, b.x + b.dx)
        max_y == Min(a.y + a.dy, b.y + b.dy)
    IN IF ~IsCoplanar(a, b) THEN [err |-> "ValueError: not coplanar", area |-> 0]
       ELSE IF min_x > max_x \/ min_y > max_y THEN [err |-> "none", area |-> 0]
       ELSE [err |-> "none", area |-> (max_x - min_x) * (max_y - min_y)]

(* Tile._is_overlappingXY *)
BoxesTouchXY(a, b) ==
    /\ ~(a.x > b.x + b.dx \/ a.x + a.dx < b.x)
    /\ ~(a.y > b.y + b.dy \/ a.y + a.dy < b.y)

(* Tile.iouXY as the fraction num / den, or the exception that ends it *)
IouXY(a, b) ==
    LET inter == IntersectionAreaXY(a, b)
        union == AreaXY(a) + AreaXY(b) - inter.area
    IN IF ~BoxesTouchXY(a, b) THEN [err |-> "none", num |-> 0, den |-> 1]
       ELSE IF inter.err # "none" THEN [err |-> inter.err, num |-> 0, den |-> 1]
       ELSE IF inter.area <= 0 THEN [err |-> "none", num |-> 0, den |-> 1]
       ELSE IF union <= 0 THEN [err |-> "ValueError: union", num |-> 0, den |-> 1]
       ELSE [err |-> "none", num |-> inter.area, den |-> union]

(* eps = 1e-6 = EpsNum / EpsDen, the default of is_overlappingXY and of    *)
(* _remove_tile_XY_overalap                                                *)
EpsNum == 1

EpsDen == 1000000

(* iou > eps and iou < eps for a fraction iou with den > 0 *)
IouGtEps(iou) == GtRat(iou.num, iou.den * EpsNum, EpsDen)

IouLtEps(iou) == LtRat(iou.num, iou.den * EpsNum, EpsDen)

(* the exception Tile.is_overlappingXY ends with, or "none": iouXY is only *)
(* called for boxes that touch                                             *)
IsOverlappingXYError(a, b) == IF BoxesTouchXY(a, b) THEN IouXY(a, b).err ELSE "none"

(* Tile.is_overlappingXY, where it returns *)
IsOverlappingXY(a, b) == BoxesTouchXY(a, b) /\ IouGtEps(IouXY(a, b))

(***************************************************************************)
(* _stitching.py: the stages of the placement pipeline                     *)
(***************************************************************************)

(* check_tiles_coplanar: TRUE when the check passes *)
CheckTilesCoplanar(tiles) ==
    Len(tiles) = 0 \/ \A k \in 1..Len(tiles) : IsCoplanar(tiles[1], tiles[k])

(* the smallest element of a non-empty set of integers *)
SetMin(S) == CHOOSE m \in S : \A n \in S : m <= n

SetMax(S) == CHOOSE m \in S : \A n \in S : m >= n

(* _min_point (min() of an empty list raises: callers check Len first) *)
MinPoint(tiles) ==
    <<SetMin({tiles[k].x : k \in 1..Len(tiles)}), SetMin({tiles[k].y : k \in 1..Len(tiles)})>>

(* sorted(..., key=...) on (key, item) pairs: stable, so a pair is put     *)
(* after the pairs before it whose key is smaller or equal                 *)
RECURSIVE SortPairs(_)
SortPairs(pairs) ==
    IF Len(pairs) = 0 THEN <<>>
    ELSE LET n == Len(pairs)
             rest == SortPairs(SubSeq(pairs, 1, n - 1))
             pos == Cardinality({k \in 1..(n - 1) : rest[k][1] <= pairs[n][1]})
         IN SubSeq(rest, 1, pos) \o <<pairs[n]>> \o SubSeq(rest, pos + 1, n - 1)

StableSortByKey(items, keys) ==
    LET sorted == SortPairs([k \in 1..Len(items) |-> <<keys[k], items[k]>>])
    IN [k \in 1..Len(items) |-> sorted[k][2]]

(* sort_tiles_by_distance *)
SortTilesByDistance(tiles) ==
    LET mp == MinPoint(tiles)
    IN StableSortByKey(tiles,
           [k \in 1..Len(tiles) |-> LengthSqXY(tiles[k].x - mp[1], tiles[k].y - mp[2])])

(* remove_tiles_offset_xy *)
RemoveTilesOffsetXY(tiles) ==
    LET mp == MinPoint(tiles)
    IN [k \in 1..Len(tiles) |-> MoveBy(tiles[k], 0 - mp[1], 0 - mp[2], 0, 0)]

(* remove_tiles_offset_zt *)
RemoveTilesOffsetZT(tiles) ==
    [k \in 1..Len(tiles) |-> MoveBy(tiles[k], 0, 0, 0 - tiles[k].z, 0 - tiles[k].t)]

(* tiles_to_pixel_space *)
TilesToPixelSpace(tiles) == [k \in 1..Len(tiles) |-> ToPixelSpace(tiles[k])]

(* swap_xy_tiles, invert_x_tiles, invert_y_tiles *)
SwapXYTiles(tiles) ==
    [k \in 1..Len(tiles) |->
        DeriveFromDiag(tiles[k], tiles[k].y, tiles[k].x, tiles[k].z, tiles[k].t,
                       tiles[k].dy, tiles[k].dx)]

InvertXTiles(tiles) ==
    [k \in 1..Len(tiles) |->
        DeriveFromDiag(tiles[k], 0 - tiles[k].x, tiles[k].y, tiles[k].z, tiles[k].t,
                       tiles[k].dx, tiles[k].dy)]

InvertYTiles(tiles) ==
    [k \in 1..Len(tiles) |->
        DeriveFromDiag(tiles[k], tiles[k].x, 0 - tiles[k].y, tiles[k].z, tiles[k].t,
                       tiles[k].dx, tiles[k].dy)]

(* reset_tiles_origin *)
ResetTilesOrigin(tiles) == [k \in 1..Len(tiles) |-> ResetOrigin(tiles[k])]

(* numpy.argmin of a non-empty list: the first index (1-based) of the minimum *)
ArgMin(values) ==
    LET m == SetMin({values[k] : k \in 1..Len(values)})
    IN SetMin({k \in 1..Len(values) : values[k] = m})

(* as RemoveTileXYOverlap, with a step of length zero: the tile stays *)
RemoveTileXYOverlapNoMove(ref_tile, query_tile) == [err |-> FALSE, tile |-> query_tile]

(* _remove_tile_XY_overalap with speed = 1: the query tile moved to the    *)
(* nearest corner of ref_tile at which its IoU with ref_tile is below eps; *)
(* err when no corner qualifies (argmin of an empty list)                  *)
RemoveTileXYOverlap(ref_tile, query_tile) ==
    LET corners == CornersXY(ref_tile)
        vec(k) == <<corners[k][1] - query_tile.x, corners[k][2] - query_tile.y>>
        moved(k) == MoveBy(query_tile, vec(k)[1], vec(k)[2], ref_tile.z - query_tile.z,
                           ref_tile.t - query_tile.t)
        ok == SelectSeq(<<1, 2, 3, 4>>, LAMBDA k : IouLtEps(IouXY(moved(k), ref_tile)))
        lengths == [n \in 1..Len(ok) |-> LengthSqXY(vec(ok[n])[1], vec(ok[n])[2])]
    IN IF Len(ok) = 0 THEN [err |-> TRUE, tile |-> query_tile]
       ELSE [err |-> FALSE, tile |-> moved(ok[ArgMin(lengths)])]

(***************************************************************************)
(* _grid_utils.py: detection of a regular grid                             *)
(***************************************************************************)

(* numpy.allclose(values, ref): |v - ref| <= atol + rtol * |ref| with the  *)
(* defaults atol = 1e-8 = 1 / AllCloseAtolInv and rtol = 1e-5 =            *)
(* AllCloseRtolByAtol * atol                                               *)
AllCloseAtolInv == 100000000

AllCloseRtolByAtol == 1000

AllClose(values, ref) ==
    \A k \in 1..Len(values) :
        Abs(values[k] - ref) <= (1 + AllCloseRtolByAtol * Abs(ref)) \div AllCloseAtolInv

(* the threshold 1e-6 = GridEpsNum / GridEpsDen of the offset and slant tests *)
GridEpsNum == 1

GridEpsDen == 1000000

(* numpy.round(p / q) for q > 0: to the nearest integer, halves to even *)
RoundHalfEven(p, q) ==
    LET f == p \div q
        r == p - f * q
    IN IF 2 * r < q THEN f
       ELSE IF 2 * r > q THEN f + 1
       ELSE IF f % 2 = 0 THEN f ELSE f + 1

(* as FindGridSize, counting the strides instead of the tiles *)
FindGridSizeStrides(tiles, offset_x, offset_y) ==
    <<RoundHalfEven(SetMax({tiles[k].x : k \in 1..Len(tiles)}), offset_x),
      RoundHalfEven(SetMax({tiles[k].y : k \in 1..Len(tiles)}), offset_y)>>

(* _find_grid_size *)
FindGridSize(tiles, offset_x, offset_y) ==
    <<RoundHalfEven(SetMax({tiles[k].x : k \in 1..Len(tiles)}), offset_x) + 1,
      RoundHalfEven(SetMax({tiles[k].y : k \in 1..Len(tiles)}), offset_y) + 1>>

(* GridSetup() with its defaults *)
EmptyGridSetup ==
    [length_x |-> 0, length_y |-> 0, offset_x |-> 0, offset_y |-> 0, num_x |-> 0, num_y |-> 0]

(* numpy.sort, numpy.diff and the filter offsets > 1e-6 *)
PositiveOffsets(positions) ==
    LET sorted == StableSortByKey(positions, positions)
        diffs == [k \in 1..(Len(sorted) - 1) |-> sorted[k + 1] - sorted[k]]
    IN SelectSeq(diffs, LAMBDA d : GtRat(d, GridEpsNum, GridEpsDen))

(* the for / else of the slant test: TRUE when some tile after the first   *)
(* has vec.x < 1e-6 or vec.y < 1e-6                                        *)
SlantTestBothAxes(tiles) ==
    \E k \in 2..Len(tiles) :
        /\ ~LtRat(tiles[k].x - tiles[1].x, GridEpsNum, GridEpsDen)
        /\ ~LtRat(tiles[k].y - tiles[1].y, GridEpsNum, GridEpsDen)

SlantTestPasses(tiles) ==
    \E k \in 2..Len(tiles) :
        \/ LtRat(tiles[k].x - tiles[1].x, GridEpsNum, GridEpsDen)
        \/ LtRat(tiles[k].y - tiles[1].y, GridEpsNum, GridEpsDen)

(* the stride of one axis once its offsets are known to be all close *)
GridOffset(offsets) == IF Len(offsets) = 0 THEN 1 ELSE offsets[1]

(* check_if_regular_grid: (error message or "none", GridSetup) *)
(* as CheckIfRegularGrid, with a single tile accepted as a trivial grid *)
CheckIfRegularGridTrivialSingle(tiles) ==
    LET n == Len(tiles)
        fail(msg) == [err |-> msg, setup |-> EmptyGridSetup]
        tiles_length_x == [k \in 1..n |-> (tiles[k].x + tiles[k].dx) - tiles[k].x]
        tiles_length_y == [k \in 1..n |-> (tiles[k].y + tiles[k].dy) - tiles[k].y]
        offsets_x == PositiveOffsets([k \in 1..n |-> tiles[k].x])
        offsets_y == PositiveOffsets([k \in 1..n |-> tiles[k].y])
        offset_x == GridOffset(offsets_x)
        offset_y == GridOffset(offsets_y)
        size == FindGridSize(tiles, offset_x, offset_y)
    IN IF n = 0 THEN fail("Empty list of tiles")
       ELSE IF n = 1
       THEN [err |-> "none",
             setup |-> [length_x |-> tiles_length_x[1], length_y |-> tiles_length_y[1],
                        offset_x |-> 1, offset_y |-> 1, num_x |-> 1, num_y |-> 1]]
       ELSE IF ~AllClose(tiles_length_x, tiles_length_x[1])
       THEN fail("Not all lengths are the same")
       ELSE IF ~AllClose(tiles_length_y, tiles_length_y[1])
       THEN fail("Not all lengths are the same")
       ELSE IF Len(offsets_x) > 0 /\ ~AllClose(offsets_x, offsets_x[1])
       THEN fail("Not all x offsets are the same")
       ELSE IF Len(offsets_y) > 0 /\ ~AllClose(offsets_y, offsets_y[1])
       THEN fail("Not all y offsets are the same")
       ELSE IF n > 2 /\ ~SlantTestPasses(tiles)
       THEN fail("The grid is slanted")
       ELSE [err |-> "none",
             setup |-> [length_x |-> tiles_length_x[1], length_y |-> tiles_length_y[1],
                        offset_x |-> offset_x, offset_y |-> offset_y,
                        num_x |-> size[1], num_y |-> size[2]]]

CheckIfRegularGrid(tiles) ==
    LET n == Len(tiles)
        fail(msg) == [err |-> msg, setup |-> EmptyGridSetup]
        tiles_length_x == [k \in 1..n |-> (tiles[k].x + tiles[k].dx) - tiles[k].x]
        tiles_length_y == [k \in 1..n |-> (tiles[k].y + tiles[k].dy) - tiles[k].y]
        offsets_x == PositiveOffsets([k \in 1..n |-> tiles[k].x])
        offsets_y == PositiveOffsets([k \in 1..n |-> tiles[k].y])
        offset_x == GridOffset(offsets_x)
        offset_y == GridOffset(offsets_y)
        size == FindGridSize(tiles, offset_x, offset_y)
    IN IF n = 0 THEN fail("Empty list of tiles")
       ELSE IF n = 1 THEN fail("Only one tile")
       ELSE IF ~AllClose(tiles_length_x, tiles_length_x[1])
       THEN fail("Not all lengths are the same")
       ELSE IF ~AllClose(tiles_length_y, tiles_length_y[1])
       THEN fail("Not all lengths are the same")
       ELSE IF Len(offsets_x) > 0 /\ ~AllClose(offsets_x, offsets_x[1])
       THEN fail("Not all x offsets are the same")
       ELSE IF Len(offsets_y) > 0 /\ ~AllClose(offsets_y, offsets_y[1])
       THEN fail("Not all y offsets are the same")
       ELSE IF n > 2 /\ ~SlantTestPasses(tiles)
       THEN fail("The grid is slanted")
       ELSE [err |-> "none",
             setup |-> [length_x |-> tiles_length_x[1], length_y |-> tiles_length_y[1],
                        offset_x |-> offset_x, offset_y |-> offset_y,
                        num_x |-> size[1], num_y |-> size[2]]]

(***************************************************************************)
(* _stitching.py: grid snap and pixel-gap closing                          *)
(***************************************************************************)

(* grid_tolerance = min(length_x, length_y) / GridTolDiv *)
GridTolDiv == 100

(* the squared XY distances from the point (px, py) to every tile *)
DistancesSq(tiles, px, py) ==
    [k \in 1..Len(tiles) |-> LengthSqXY(px - tiles[k].x, py - tiles[k].y)]

(* the cells (i, j) in loop order: i outer, j inner *)
GridCells(num_x, num_y) ==
    [n \in 1..(Max(num_x, 0) * Max(num_y, 0)) |-> <<(n - 1) \div num_y, (n - 1) % num_y>>]

(* as GridOutPosition, counting the cells from one *)
GridOutPositionOneBased(i, length) == (i + 1) * length

(* x_out = i * length_x, y_out = j * length_y: the output position of cell i *)
GridOutPosition(i, length) == i * length

(* the loop of resolve_grid_tiles_overlap over cells[1..n] *)
RECURSIVE GridSnapLoop(_, _, _, _)
GridSnapLoop(tiles, grid_setup, cells, n) ==
    IF n = 0 THEN <<>>
    ELSE LET i == cells[n][1]
             j == cells[n][2]
             distances == DistancesSq(tiles, i * grid_setup.offset_x, j * grid_setup.offset_y)
             closest == tiles[ArgMin(distances)]
             min_len == Min(grid_setup.length_x, grid_setup.length_y)
             before == GridSnapLoop(tiles, grid_setup, cells, n - 1)
         IN IF LtRat(distances[ArgMin(distances)], min_len * min_len, GridTolDiv * GridTolDiv)
            THEN Append(before,
                        DeriveFromDiag(closest, GridOutPosition(i, grid_setup.length_x),
                                       GridOutPosition(j, grid_setup.length_y),
                                       tiles[1].z, tiles[1].t,
                                       closest.dx, closest.dy))
            ELSE before

(* resolve_grid_tiles_overlap: the snapped tiles, or the ValueError of the count check *)
ResolveGridTilesOverlap(tiles_in, grid_setup) ==
    LET tiles == SortTilesByDistance(tiles_in)
        cells == GridCells(grid_setup.num_x, grid_setup.num_y)
        output_tiles == GridSnapLoop(tiles, grid_setup, cells, Len(cells))
    IN IF Len(output_tiles) # Len(tiles)
       THEN [err |-> "GridCountMismatch", tiles |-> <<>>]
       ELSE [err |-> "none", tiles |-> output_tiles]

(* an integer d2 has sqrt(d2) <= sqrt(max_gap^2 + max_gap^2) + 1e-6 with   *)
(* max_gap = 1 exactly when d2 <= 2                                        *)
MaxGapSq == 2

(* the loop of remove_pixel_gaps over cells[1..n] *)
RECURSIVE PixelGapLoop(_, _, _, _, _)
PixelGapLoop(tiles, offset_x, offset_y, cells, n) ==
    IF n = 0 THEN <<>>
    ELSE LET i == cells[n][1]
             j == cells[n][2]
             distances == DistancesSq(tiles, i * offset_x, j * offset_y)
             closest == tiles[ArgMin(distances)]
             before == PixelGapLoop(tiles, offset_x, offset_y, cells, n - 1)
         IN IF distances[ArgMin(distances)] <= MaxGapSq
            THEN Append(before,
                        DeriveFromDiag(closest, i * offset_x, j * offset_y,
                                       tiles[1].z, tiles[1].t, closest.dx, closest.dy))
            ELSE before

(* remove_pixel_gaps: the failed asserts and the division by a zero offset are errors *)
RemovePixelGaps(tiles) ==
    IF Len(tiles) = 0 THEN [err |-> "AssertionError", tiles |-> <<>>]
    ELSE IF tiles[1].space # "pixel" THEN [err |-> "AssertionError", tiles |-> <<>>]
    ELSE IF tiles[1].dx = 0 \/ tiles[1].dy = 0
    THEN [err |-> "ZeroDivisionError", tiles |-> <<>>]
    ELSE LET size == FindGridSize(tiles, tiles[1].dx, tiles[1].dy)
             cells == GridCells(size[1], size[2])
         IN [err |-> "none",
             tiles |-> PixelGapLoop(tiles, tiles[1].dx, tiles[1].dy, cells, Len(cells))]

(***************************************************************************)
(* _omezarr_image_writers.py                                               *)
(***************************************************************************)

(* as FindShape, taking the extent from the top-left corners *)
FindShapeTopLeft(tiles) ==
    <<SetMax({tiles[k].y : k \in 1..Len(tiles)}), SetMax({tiles[k].x : k \in 1..Len(tiles)})>>

(* _find_shape: the (y, x) part of the canvas shape *)
FindShape(tiles) ==
    <<SetMax({tiles[k].y + tiles[k].dy : k \in 1..Len(tiles)}),
      SetMax({tiles[k].x + tiles[k].dx : k \in 1..Len(tiles)})>>

(***************************************************************************)
(* The caller's objects.  A call receives the caller's list of tiles; the  *)
(* record caller holds the geometry these objects have now (tiles) and     *)
(* whether the list a stage writes to in place is the caller's (alias).    *)
(***************************************************************************)

(* the fraction num / den, a whole number written over 1 *)
Frac(num, den) ==
    IF num % den = 0 THEN [num |-> num \div den, den |-> 1] ELSE [num |-> num, den |-> den]

(* position and size of one tile (of the roi of one TileSlice) *)
TileGeometry(tile) ==
    [x |-> Frac(tile.x, 1), y |-> Frac(tile.y, 1), z |-> tile.z, t |-> tile.t,
     dx |-> tile.dx, dy |-> tile.dy]

Geometries(tiles) == [k \in 1..Len(tiles) |-> TileGeometry(tiles[k])]

(* tiles = copy.deepcopy(tiles): the stages work on objects of their own *)
DeepCopy(caller) == [caller EXCEPT !.alias = FALSE]

(* as FreeLocalList, with the loop relocating tiles in the list it was given *)
FreeLocalListShared(caller) == caller

(* tiles = copy.deepcopy(tiles); tiles = sort_tiles_by_distance(tiles):    *)
(* the loop of resolve_random_tiles_overlap writes to a list of its own    *)
FreeLocalList(caller) == [caller EXCEPT !.alias = FALSE]

(* tiles[j] = bbox_no: an assignment to an item of the list `tiles` *)
ListItemAssign(caller, tiles) ==
    IF caller.alias THEN [caller EXCEPT !.tiles = Geometries(tiles)] ELSE caller

(* move_roi_by(roi, vector): every start moved by the delta of its axis *)
MoveRoiBy(roi, vector) ==
    [roi EXCEPT !.x = Frac(@.num * vector.x.den + vector.x.num * @.den, @.den * vector.x.den),
                !.y = Frac(@.num * vector.y.den + vector.y.num * @.den, @.den * vector.y.den)]

(***************************************************************************)
(* The placement pipeline as a state machine: one call of                  *)
(* standard_stitching_pipe (entry "pipe") or of resolve_tiles_overlap      *)
(* (entry "resolve"), one action per statement of the code.                *)
(***************************************************************************)

(* where the call continues once resolve_tiles_overlap has returned *)
AfterResolve == IF p_in.entry = "pipe" THEN "to_pixel" ELSE "returned"

(* an exception leaves the call: nothing is returned *)
Raise(msg) ==
    /\ p_err' = msg
    /\ p_pc' = "failed"

(* apply_stitching_pipe(tiled_image, stiching_pipe) up to the call of the  *)
(* pipe: a tiled image without tiles is refused, then                      *)
(* tiles = copy.deepcopy(tiles)                                            *)
ApplyStitchingPipeStep ==
    /\ p_pc = "apply_stitching_pipe"
    /\ IF Len(p_tiles) = 0
       THEN Raise("ValueError: No tiles in the TiledImage object.") /\ p_caller' = p_caller
       ELSE /\ p_pc' = "check_coplanar"
            /\ p_err' = p_err
            /\ p_caller' = DeepCopy(p_caller)
    /\ UNCHANGED <<p_in, p_tiles, p_mode, p_grid, f_loop, p_shape>>
    /\ UNCHANGED <<p_offsets, p_reg, compVars, gridVars, taskVars>>

(* check_tiles_coplanar(tiles); tiles = copy.deepcopy(tiles) *)
CheckCoplanarStep ==
    /\ p_pc = "check_coplanar"
    /\ IF CheckTilesCoplanar(p_tiles)
       THEN p_pc' = "swap_xy" /\ p_err' = p_err
       ELSE Raise("ValueError: not coplanar")
    /\ p_caller' = IF CheckTilesCoplanar(p_tiles) THEN DeepCopy(p_caller) ELSE p_caller
    /\ UNCHANGED <<p_in, p_tiles, p_mode, p_grid, f_loop, p_shape>>
    /\ UNCHANGED <<p_offsets, p_reg, compVars, gridVars, taskVars>>

(* if swap_xy: tiles = swap_xy_tiles(tiles) *)
SwapXYStep ==
    /\ p_pc = "swap_xy"
    /\ p_tiles' = IF p_in.swap_xy THEN SwapXYTiles(p_tiles) ELSE p_tiles
    /\ p_pc' = "invert_x"
    /\ UNCHANGED <<p_in, p_mode, p_grid, f_loop, p_err, p_shape>>
    /\ UNCHANGED <<p_offsets, p_caller, p_reg, compVars, gridVars, taskVars>>

(* if invert_x: tiles = invert_x_tiles(tiles) *)
InvertXStep ==
    /\ p_pc = "invert_x"
    /\ p_tiles' = IF p_in.invert_x THEN InvertXTiles(p_tiles) ELSE p_tiles
    /\ p_pc' = "invert_y"
    /\ UNCHANGED <<p_in, p_mode, p_grid, f_loop, p_err, p_shape>>
    /\ UNCHANGED <<p_offsets, p_caller, p_reg, compVars, gridVars, taskVars>>

(* if invert_y: tiles = invert_y_tiles(tiles) *)
InvertYStep ==
    /\ p_pc = "invert_y"
    /\ p_tiles' = IF p_in.invert_y THEN InvertYTiles(p_tiles) ELSE p_tiles
    /\ p_pc' = "reset_origin"
    /\ UNCHANGED <<p_in, p_mode, p_grid, f_loop, p_err, p_shape>>
    /\ UNCHANGED <<p_offsets, p_caller, p_reg, compVars, gridVars, taskVars>>

(* if any([swap_xy, invert_x, invert_y]): tiles = reset_tiles_origin(tiles) *)
ResetOriginStep ==
    /\ p_pc = "reset_origin"
    /\ p_tiles' = IF p_in.swap_xy \/ p_in.invert_x \/ p_in.invert_y
                  THEN ResetTilesOrigin(p_tiles) ELSE p_tiles
    /\ p_pc' = "sort"
    /\ UNCHANGED <<p_in, p_mode, p_grid, f_loop, p_err, p_shape>>
    /\ UNCHANGED <<p_offsets, p_caller, p_reg, compVars, gridVars, taskVars>>

(* tiles = sort_tiles_by_distance(tiles): min() of an empty list raises *)
SortStep ==
    /\ p_pc = "sort"
    /\ IF Len(p_tiles) = 0
       THEN Raise("ValueError: min of empty") /\ p_tiles' = p_tiles
       ELSE /\ p_tiles' = SortTilesByDistance(p_tiles)
            /\ p_pc' = "remove_offset_xy"
            /\ p_err' = p_err
    /\ UNCHANGED <<p_in, p_mode, p_grid, f_loop, p_shape>>
    /\ UNCHANGED <<p_offsets, p_caller, p_reg, compVars, gridVars, taskVars>>

(* tiles = remove_tiles_offset_xy(tiles) *)
RemoveOffsetXYStep ==
    /\ p_pc = "remove_offset_xy"
    /\ p_tiles' = RemoveTilesOffsetXY(p_tiles)
    /\ p_pc' = "remove_offset_zt"
    /\ UNCHANGED <<p_in, p_mode, p_grid, f_loop, p_err, p_shape>>
    /\ UNCHANGED <<p_offsets, p_caller, p_reg, compVars, gridVars, taskVars>>

(* tiles = remove_tiles_offset_zt(tiles) *)
RemoveOffsetZTStep ==
    /\ p_pc = "remove_offset_zt"
    /\ p_tiles' = RemoveTilesOffsetZT(p_tiles)
    /\ p_pc' = "resolve"
    /\ UNCHANGED <<p_in, p_mode, p_grid, f_loop, p_err, p_shape>>
    /\ UNCHANGED <<p_offsets, p_caller, p_reg, compVars, gridVars, taskVars>>

(* n_overlap = np.inf *)
NpInf == 2147483647

(* after a failed grid check _resolve_auto_mode goes on with               *)
(* resolve_random_tiles_overlap and _resolve_grid_mode raises              *)
OnGridFailureFree(mode) == "free"

OnGridFailure(mode) == IF mode = "auto" THEN "free" ELSE "raise"

(* the ValueError of resolve_grid_tiles_overlap is caught by neither       *)
(* _resolve_auto_mode nor _resolve_grid_mode                               *)
OnSnapFailureAutoFree(mode) == IF mode = "auto" THEN "free" ELSE "raise"

OnSnapFailure(mode) == "raise"

(* the first statements of resolve_random_tiles_overlap *)
EnterFree ==
    /\ f_loop' = [i |-> 0, j |-> 0, n_overlap |-> NpInf]
    /\ p_pc' = "free_pass"

(* tiles, _mode = resolve_tiles_overlap(tiles, mode=mode), up to the grid  *)
(* check of _resolve_auto_mode and _resolve_grid_mode                      *)
ResolveStep ==
    /\ p_pc = "resolve"
    /\ LET r == CheckIfRegularGrid(p_tiles)
       IN CASE p_in.mode = "none" ->
                 /\ p_mode' = "none"
                 /\ p_pc' = AfterResolve
                 /\ UNCHANGED <<p_grid, f_loop, p_err>>
            [] p_in.mode = "free" ->
                 /\ EnterFree
                 /\ UNCHANGED <<p_mode, p_grid, p_err>>
            [] p_in.mode \in {"auto", "grid"} ->
                 /\ p_grid' = r
                 /\ IF r.err = "none"
                    THEN p_pc' = "grid_snap" /\ UNCHANGED <<f_loop, p_err>>
                    ELSE IF OnGridFailure(p_in.mode) = "free"
                    THEN EnterFree /\ p_err' = p_err
                    ELSE Raise("ValueError: not on a regular grid") /\ f_loop' = f_loop
                 /\ p_mode' = p_mode
            [] OTHER ->
                 /\ Raise("ValueError: mode")
                 /\ UNCHANGED <<p_mode, p_grid, f_loop>>
    /\ UNCHANGED <<p_in, p_tiles, p_shape>>
    /\ UNCHANGED <<p_offsets, p_caller, p_reg, compVars, gridVars, taskVars>>

(* resolve_grid_tiles_overlap(tiles, grid_setup) and the return with "grid" *)
GridSnapStep ==
    /\ p_pc = "grid_snap"
    /\ LET r == ResolveGridTilesOverlap(p_tiles, p_grid.setup)
       IN IF r.err = "none"
          THEN /\ p_tiles' = r.tiles
               /\ p_mode' = "grid"
               /\ p_pc' = AfterResolve
               /\ UNCHANGED <<p_err, f_loop>>
          ELSE IF OnSnapFailure(p_in.mode) = "free"
          THEN EnterFree /\ UNCHANGED <<p_tiles, p_mode, p_err>>
          ELSE /\ Raise("ValueError: grid tiling resolution")
               /\ UNCHANGED <<p_tiles, p_mode, f_loop>>
    /\ UNCHANGED <<p_in, p_grid, p_shape>>
    /\ UNCHANGED <<p_offsets, p_caller, p_reg, compVars, gridVars, taskVars>>

(* while n_overlap > 0: tiles = sort_tiles_by_distance(tiles); n_overlap = 0 *)
FreePassStart ==
    /\ p_pc = "free_pass"
    /\ IF Len(p_tiles) = 0
       THEN Raise("ValueError: min of empty") /\ UNCHANGED <<p_tiles, f_loop>>
       ELSE /\ p_tiles' = SortTilesByDistance(p_tiles)
            /\ f_loop' = [i |-> 0, j |-> 1, n_overlap |-> 0]
            /\ p_pc' = "free_scan"
            /\ p_err' = p_err
    /\ p_caller' = FreeLocalList(p_caller)
    /\ UNCHANGED <<p_in, p_mode, p_grid, p_shape>>
    /\ UNCHANGED <<p_offsets, p_reg, compVars, gridVars, taskVars>>

(* as FreeAfterRelocation, without n_overlap += 1 *)
FreeAfterRelocationUncounted(loop) ==
    [i |-> loop.i + 1, j |-> loop.i + 2, n_overlap |-> loop.n_overlap]

(* as FreeAfterRelocation, without the break: the inner loop goes on *)
FreeAfterRelocationNoBreak(loop) ==
    [i |-> loop.i, j |-> loop.j + 1, n_overlap |-> loop.n_overlap + 1]

(* n_overlap += 1; break: the inner loop ends, the outer loop goes on *)
FreeAfterRelocation(loop) ==
    [i |-> loop.i + 1, j |-> loop.i + 2, n_overlap |-> loop.n_overlap + 1]

(* one iteration of the inner loop: the pair tiles[i], tiles[j] *)
FreeExamine ==
    /\ p_pc = "free_scan"
    /\ f_loop.i < Len(p_tiles)
    /\ f_loop.j < Len(p_tiles)
    /\ LET tile == p_tiles[f_loop.i + 1]
           query_tile == p_tiles[f_loop.j + 1]
           r == RemoveTileXYOverlap(tile, query_tile)
       IN IF IsOverlappingXYError(tile, query_tile) # "none"
          THEN Raise(IsOverlappingXYError(tile, query_tile)) /\ UNCHANGED <<p_tiles, f_loop>>
          ELSE IF IsOverlappingXY(tile, query_tile)
          THEN IF r.err
               THEN Raise("ValueError: argmin of empty") /\ UNCHANGED <<p_tiles, f_loop>>
               ELSE /\ p_tiles' = [p_tiles EXCEPT ![f_loop.j + 1] = r.tile]
                    /\ f_loop' = FreeAfterRelocation(f_loop)
                    /\ UNCHANGED <<p_pc, p_err>>
          ELSE /\ f_loop' = [f_loop EXCEPT !.j = @ + 1]
               /\ UNCHANGED <<p_tiles, p_pc, p_err>>
    /\ p_caller' = ListItemAssign(p_caller, p_tiles')
    /\ UNCHANGED <<p_in, p_mode, p_grid, p_shape>>
    /\ UNCHANGED <<p_offsets, p_reg, compVars, gridVars, taskVars>>

(* the inner loop ran out of j: the next i *)
FreeInnerDone ==
    /\ p_pc = "free_scan"
    /\ f_loop.i < Len(p_tiles)
    /\ f_loop.j >= Len(p_tiles)
    /\ f_loop' = [f_loop EXCEPT !.i = @ + 1, !.j = f_loop.i + 2]
    /\ UNCHANGED <<p_in, p_pc, p_tiles, p_mode, p_grid, p_err, p_shape>>
    /\ UNCHANGED <<p_offsets, p_caller, p_reg, compVars, gridVars, taskVars>>

(* the outer loop ran out of i: another pass, or return tiles with "free" *)
FreePassEnd ==
    /\ p_pc = "free_scan"
    /\ f_loop.i >= Len(p_tiles)
    /\ IF f_loop.n_overlap > 0
       THEN p_pc' = "free_pass" /\ p_mode' = p_mode
       ELSE p_pc' = AfterResolve /\ p_mode' = "free"
    /\ UNCHANGED <<p_in, p_tiles, p_grid, f_loop, p_err, p_shape>>
    /\ UNCHANGED <<p_offsets, p_caller, p_reg, compVars, gridVars, taskVars>>

(* as ClosesPixelGaps, closing the gaps after every resolution that moved tiles *)
ClosesPixelGapsUnlessNone(mode_used) == mode_used # "none"

(* if _mode == "grid" *)
ClosesPixelGaps(mode_used) == mode_used = "grid"

(* tiles = tiles_to_pixel_space(tiles) *)
ToPixelStep ==
    /\ p_pc = "to_pixel"
    /\ IF \E k \in 1..Len(p_tiles) : p_tiles[k].space = "pixel"
       THEN Raise("ValueError: already in pixel space") /\ p_tiles' = p_tiles
       ELSE /\ p_tiles' = TilesToPixelSpace(p_tiles)
            /\ p_pc' = IF ClosesPixelGaps(p_mode) THEN "pixel_gaps" ELSE "returned"
            /\ p_err' = p_err
    /\ UNCHANGED <<p_in, p_mode, p_grid, f_loop, p_shape>>
    /\ UNCHANGED <<p_offsets, p_caller, p_reg, compVars, gridVars, taskVars>>

(* if _mode == "grid": tiles = remove_pixel_gaps(tiles); return tiles *)
PixelGapsStep ==
    /\ p_pc = "pixel_gaps"
    /\ LET r == RemovePixelGaps(p_tiles)
       IN IF r.err = "none"
          THEN p_tiles' = r.tiles /\ p_pc' = "returned" /\ p_err' = p_err
          ELSE Raise(r.err) /\ p_tiles' = p_tiles
    /\ UNCHANGED <<p_in, p_mode, p_grid, f_loop, p_shape>>
    /\ UNCHANGED <<p_offsets, p_caller, p_reg, compVars, gridVars, taskVars>>


(* apply_stitching_pipe: if len(tiles) != len(tiled_image.tiles) *)
PipeLengthDiffers(out_tiles, in_tiles) == Len(out_tiles) # Len(in_tiles)

(* the pipe has returned to apply_stitching_pipe: the count check, then   *)
(* _find_shape of the writer                                               *)
FindShapeStep ==
    /\ p_pc = "returned"
    /\ p_in.entry = "pipe"
    /\ p_in.writer
    /\ IF PipeLengthDiffers(p_tiles, p_in.tiles)
       THEN Raise("ValueError: stitching pipe") /\ p_shape' = p_shape
       ELSE /\ p_shape' = FindShape(p_tiles)
            /\ p_pc' = "shaped"
            /\ p_err' = p_err
    /\ UNCHANGED <<p_in, p_tiles, p_mode, p_grid, f_loop>>
    /\ UNCHANGED <<p_offsets, p_caller, p_reg, compVars, gridVars, taskVars>>

(***************************************************************************)
(* pipelines/_snap_utils.py and pipelines/_tiling.py: the tiling of the    *)
(* registration pipeline.  A TileSlice is a tile record of which x, y, dx, *)
(* dy and space are read; an offset is the fraction num / den.             *)
(***************************************************************************)

(* tiles_to_boxes: the exception it raises, or "none" *)
TilesToBoxes(tiles) ==
    IF Len(tiles) = 0 THEN "ValueError"
    ELSE IF \E k \in 1..Len(tiles) : tiles[k].space = "real" THEN "ValueError"
    ELSE IF Len(tiles) <= 1 THEN "none"
    ELSE IF ~AllClose([k \in 1..(Len(tiles) - 1) |-> tiles[k + 1].dx], tiles[1].dx)
    THEN "NotTilableError"
    ELSE IF ~AllClose([k \in 1..(Len(tiles) - 1) |-> tiles[k + 1].dy], tiles[1].dy)
    THEN "NotTilableError"
    ELSE "none"

(* _snap_utils.check_if_regular_grid: the exception raised or "none", and the GridSetup *)
SnapCheckIfRegularGrid(tiles) ==
    LET n == Len(tiles)
        fail(e) == [err |-> e, setup |-> EmptyGridSetup]
        offsets_x == PositiveOffsets([k \in 1..n |-> tiles[k].x])
        offsets_y == PositiveOffsets([k \in 1..n |-> tiles[k].y])
        setup(ox, oy) == [length_x |-> tiles[1].dx, length_y |-> tiles[1].dy,
                          offset_x |-> ox, offset_y |-> oy, num_x |-> 0, num_y |-> 0]
    IN IF TilesToBoxes(tiles) # "none" THEN fail(TilesToBoxes(tiles))
       ELSE IF n = 1 THEN [err |-> "none", setup |-> setup(1, 1)]
       ELSE IF Len(offsets_x) > 0 /\ ~AllClose(offsets_x, offsets_x[1])
       THEN fail("NotAGridError")
       ELSE IF Len(offsets_y) > 0 /\ ~AllClose(offsets_y, offsets_y[1])
       THEN fail("NotAGridError")
       ELSE IF n > 2 /\ ~SlantTestPasses(tiles) THEN fail("NotAGridError")
       ELSE [err |-> "none", setup |-> setup(GridOffset(offsets_x), GridOffset(offsets_y))]

(* calculate_snap_to_grid_offset: (x / offset_x) * length_x - x per tile *)
CalculateSnapToGridOffset(tiles) ==
    LET r == SnapCheckIfRegularGrid(tiles)
    IN IF r.err # "none" THEN [err |-> r.err, offsets |-> <<>>]
       ELSE [err |-> "none",
             offsets |->
               [k \in 1..Len(tiles) |->
                 [x |-> [num |-> tiles[k].x * r.setup.length_x - tiles[k].x * r.setup.offset_x,
                         den |-> r.setup.offset_x],
                  y |-> [num |-> tiles[k].y * r.setup.length_y - tiles[k].y * r.setup.offset_y,
                         den |-> r.setup.offset_y]]]]

(* _build_perfect_grid_points *)
BuildPerfectGridPoints(length_x, length_y, num_x, num_y) ==
    [n \in 1..(num_x * num_y) |->
        <<((n - 1) \div num_y) * length_x, ((n - 1) % num_y) * length_y>>]

(* the loop of calculate_snap_to_corner_offset over tiles[k..]: every tile *)
(* takes the first nearest point of the grid still free                    *)
RECURSIVE SnapToCornerLoop(_, _, _)
SnapToCornerLoop(tiles, k, perfect_grid) ==
    IF k > Len(tiles) THEN <<>>
    ELSE LET distances == [n \in 1..Len(perfect_grid) |->
                             LengthSqXY(tiles[k].x - perfect_grid[n][1],
                                        tiles[k].y - perfect_grid[n][2])]
             min_id == ArgMin(distances)
             point == perfect_grid[min_id]
             left == [n \in 1..(Len(perfect_grid) - 1) |->
                         IF n < min_id THEN perfect_grid[n] ELSE perfect_grid[n + 1]]
         IN <<[x |-> [num |-> point[1] - tiles[k].x, den |-> 1],
               y |-> [num |-> point[2] - tiles[k].y, den |-> 1]]>>
            \o SnapToCornerLoop(tiles, k + 1, left)

(* calculate_snap_to_corner_offset *)
CalculateSnapToCornerOffset(tiles) ==
    IF TilesToBoxes(tiles) # "none" THEN [err |-> TilesToBoxes(tiles), offsets |-> <<>>]
    ELSE [err |-> "none",
          offsets |-> SnapToCornerLoop(tiles, 1,
                          BuildPerfectGridPoints(tiles[1].dx, tiles[1].dy,
                                                 Len(tiles), Len(tiles)))]

(* _no_tiling *)
NoTiling(tiles) ==
    [k \in 1..Len(tiles) |-> [x |-> [num |-> 0, den |-> 1], y |-> [num |-> 0, den |-> 1]]]

(* as AutoTilingCatches, for an except clause that catches every error *)
AutoTilingCatchesAny(err) == TRUE

(* the except clause of _auto_tiling: except NotAGridError *)
AutoTilingCatches(err) == err = "NotAGridError"

(* roi.name of a region: the field of view of the tile it was made from;  *)
(* a call that names no fields of view has one per tile                    *)
FovNameOf(tile) == IF "fov" \in DOMAIN p_in THEN p_in.fov[tile.id] ELSE tile.id

(* the keys of fov_dict in TiledImage.group_by_fov: the names in the order *)
(* of their first region                                                   *)
RECURSIVE FovNames(_)
FovNames(tiles) ==
    IF Len(tiles) = 0 THEN <<>>
    ELSE LET head == FovNames(SubSeq(tiles, 1, Len(tiles) - 1))
             name == FovNameOf(tiles[Len(tiles)])
         IN IF \E g \in 1..Len(head) : head[g] = name THEN head ELSE Append(head, name)

(* TiledImage.group_by_fov: the regions of every field of view, in order *)
GroupByFov(tiles) ==
    [g \in 1..Len(FovNames(tiles)) |->
        LET InGroup(tile) == FovNameOf(tile) = FovNames(tiles)[g]
        IN SelectSeq(tiles, InGroup)]

(* the place of a region's field of view in group_by_fov *)
GroupIndex(tiles, tile) ==
    CHOOSE g \in 1..Len(FovNames(tiles)) : FovNames(tiles)[g] = FovNameOf(tile)

(* aligned_regions.extend(...) over the groups *)
RECURSIVE ExtendAll(_)
ExtendAll(groups) ==
    IF Len(groups) = 0 THEN <<>>
    ELSE ExtendAll(SubSeq(groups, 1, Len(groups) - 1)) \o groups[Len(groups)]

(* roi_to_point_distance(roi, origin) over the axes t, z, y, x, squared *)
DistanceSqToOrigin(tile) ==
    tile.x * tile.x + tile.y * tile.y + tile.z * tile.z + tile.t * tile.t

(* TileFOVGroup.ref_slice on the regions of a field of view: the first of  *)
(* the regions nearest to the origin                                       *)
RefRegion(regions) ==
    regions[ArgMin([k \in 1..Len(regions) |-> DistanceSqToOrigin(regions[k])])]

(* reference_regions of apply_mosaic_tiling: one region per field of view *)
ReferenceRegions(tiles) ==
    [g \in 1..Len(FovNames(tiles)) |-> RefRegion(GroupByFov(tiles)[g])]

(* region.roi = ...: an assignment to a field of the TileSlice objects of  *)
(* the tiled image; the object made of tile id is the caller's unless a    *)
(* step replaced it by a copy                                              *)
RoiAssign(caller, tiles) ==
    IF ~caller.alias THEN caller
    ELSE [caller EXCEPT !.tiles =
            [i \in 1..Len(caller.tiles) |->
                IF i \notin caller.copied /\ \E k \in 1..Len(tiles) : tiles[k].id = i
                THEN TileGeometry(tiles[CHOOSE k \in 1..Len(tiles) : tiles[k].id = i])
                ELSE caller.tiles[i]]]

(* _tile_regions on every field of view: region.roi = move_roi_by(roi,     *)
(* instruction of the field of view), on the TileSlice objects of the      *)
(* tiled image (group_by_fov and TileFOVGroup keep the objects)            *)
TileRegions(caller, tiles, offsets) ==
    IF ~caller.alias THEN caller
    ELSE [caller EXCEPT !.tiles =
            [i \in 1..Len(caller.tiles) |->
                IF i \notin caller.copied /\ \E k \in 1..Len(tiles) : tiles[k].id = i
                THEN MoveRoiBy(caller.tiles[i],
                         offsets[GroupIndex(tiles,
                                     tiles[CHOOSE k \in 1..Len(tiles) : tiles[k].id = i])])
                ELSE caller.tiles[i]]]

(* apply_remove_offsets: the least start of every axis is moved to zero *)
ApplyRemoveOffsets(tiles) ==
    IF Len(tiles) = 0 THEN tiles
    ELSE LET ks == 1..Len(tiles)
             min_x == SetMin({tiles[k].x : k \in ks})
             min_y == SetMin({tiles[k].y : k \in ks})
             min_z == SetMin({tiles[k].z : k \in ks})
             min_t == SetMin({tiles[k].t : k \in ks})
         IN [k \in ks |-> MoveBy(tiles[k], 0 - min_x, 0 - min_y, 0 - min_z, 0 - min_t)]

(* Roi.to_pixel(pixel_size): a roi in pixel space is returned as it is,   *)
(* one in world space has every start and length divided by the pixel     *)
(* size of its axis (the spacing of z and t is 1); then the floor of       *)
(* apply_align_to_pixel_grid with mode "floor"                             *)
RoiToPixelFloor(tile) ==
    IF tile.space = "pixel" THEN tile
    ELSE [tile EXCEPT !.x = @ \div tile.ps, !.y = @ \div tile.ps,
                      !.dx = @ \div tile.ps, !.dy = @ \div tile.ps,
                      !.space = "pixel"]

(* apply_align_to_pixel_grid with mode "floor", on every region *)
ApplyAlignToPixelGrid(tiles) ==
    [k \in 1..Len(tiles) |-> RoiToPixelFloor(tiles[k])]

(* _align_xy_regions: the first region is the reference, every later one   *)
(* is moved to its x and y                                                 *)
AlignXYRegions(regions) ==
    [k \in 1..Len(regions) |->
        IF k = 1 THEN regions[1]
        ELSE DeriveFromDiag(regions[k], regions[1].x, regions[1].y,
                            regions[k].z, regions[k].t, regions[k].dx, regions[k].dy)]

(* update_regions = [ref_region.model_copy()]: the tiles whose region is   *)
(* an object of its own from here on                                       *)
CopiedByAlignXY(tiles) == {GroupByFov(tiles)[g][1].id : g \in 1..Len(FovNames(tiles))}

(* apply_fov_alignment_corrections: the regions of the tiled image become  *)
(* the aligned regions of the fields of view, one field after the other;   *)
(* the z and t alignments return the regions unchanged                     *)
ApplyFovAlignmentCorrections(tiles, align_xy) ==
    ExtendAll([g \in 1..Len(FovNames(tiles)) |->
                  IF align_xy THEN AlignXYRegions(GroupByFov(tiles)[g])
                  ELSE GroupByFov(tiles)[g]])

(* the function a step of the loop calls, as the statement it starts at *)
PcOfFunction(function) ==
    CASE function = "apply_remove_offsets" -> "remove_offsets"
      [] function = "apply_align_to_pixel_grid" -> "align_to_pixel_grid"
      [] function = "apply_fov_alignment_corrections" -> "fov_alignment_corrections"
      [] function = "apply_mosaic_tiling" -> "find_tiling"
      [] OTHER -> "user_function"

(* where the loop of apply_registration_pipeline is at step number n of    *)
(* pipeline_config: the lookup of the step name in the registry            *)
PcOfStep(registry, n) ==
    IF n > Len(p_in.steps) THEN "registered"
    ELSE IF p_in.steps[n] \notin DOMAIN registry THEN "lookup_failed"
    ELSE PcOfFunction(registry[p_in.steps[n]])

(* tiled_image = step_function(tiled_image, **step_params) has returned:   *)
(* the loop goes on with the next step                                     *)
StepDone ==
    /\ p_reg' = [p_reg EXCEPT !.step = @ + 1]
    /\ p_pc' = PcOfStep(p_reg.registry, p_reg.step + 1)

(* add_registration_func(function, name, overwrite): the registry after    *)
(* the call and the exception raised; a function is known by its __name__  *)
AddRegistrationFunc(registry, function, name, overwrite) ==
    LET key == IF name = "None" THEN function ELSE name
    IN IF ~overwrite /\ key \in DOMAIN registry
       THEN [err |-> "ValueError: already registered", registry |-> registry]
       ELSE [err |-> "none",
             registry |-> [k \in DOMAIN registry \cup {key} |->
                             IF k = key THEN function ELSE registry[k]]]

(* add_registration_func called before the pipeline is applied *)
AddRegistrationFuncStep ==
    /\ p_pc = "add_registration_func"
    /\ LET r == AddRegistrationFunc(p_reg.registry, p_in.add.function, p_in.add.name,
                                    p_in.add.overwrite)
       IN IF r.err # "none"
          THEN Raise(r.err) /\ p_reg' = p_reg
          ELSE /\ p_reg' = [p_reg EXCEPT !.registry = r.registry]
               /\ p_pc' = PcOfStep(r.registry, 1)
               /\ p_err' = p_err
    /\ UNCHANGED <<p_in, p_tiles, p_mode, p_grid, f_loop, p_shape, p_offsets, p_caller>>
    /\ UNCHANGED <<compVars, gridVars, taskVars>>

(* a step of the caller's own function `other`, which returns the tiled    *)
(* image it was given                                                      *)
UserFunctionStep ==
    /\ p_pc = "user_function"
    /\ StepDone
    /\ UNCHANGED <<p_in, p_tiles, p_mode, p_grid, f_loop, p_err, p_shape, p_offsets>>
    /\ UNCHANGED <<p_caller, compVars, gridVars, taskVars>>

(* apply_registration_pipeline, a step name that is not registered *)
LookupFailsStep ==
    /\ p_pc = "lookup_failed"
    /\ Raise("ValueError: step not registered")
    /\ UNCHANGED <<p_in, p_tiles, p_mode, p_grid, f_loop, p_shape, p_offsets, p_caller>>
    /\ UNCHANGED <<p_reg, compVars, gridVars, taskVars>>

(* apply_registration_pipeline, step "remove_offsets" *)
RemoveOffsetsStep ==
    /\ p_pc = "remove_offsets"
    /\ p_tiles' = ApplyRemoveOffsets(p_tiles)
    /\ p_caller' = RoiAssign(p_caller, p_tiles')
    /\ StepDone
    /\ UNCHANGED <<p_in, p_mode, p_grid, f_loop, p_err, p_shape, p_offsets>>
    /\ UNCHANGED <<compVars, gridVars, taskVars>>

(* apply_registration_pipeline, step "align_to_pixel_grid" *)
AlignToPixelGridStep ==
    /\ p_pc = "align_to_pixel_grid"
    /\ p_tiles' = ApplyAlignToPixelGrid(p_tiles)
    /\ p_caller' = RoiAssign(p_caller, p_tiles')
    /\ StepDone
    /\ UNCHANGED <<p_in, p_mode, p_grid, f_loop, p_err, p_shape, p_offsets>>
    /\ UNCHANGED <<compVars, gridVars, taskVars>>

(* apply_registration_pipeline, step "fov_alignment_corrections" *)
FovAlignmentStep ==
    /\ p_pc = "fov_alignment_corrections"
    /\ p_tiles' = ApplyFovAlignmentCorrections(p_tiles, p_in.align_xy)
    /\ p_caller' = IF p_in.align_xy
                   THEN [RoiAssign(p_caller, p_tiles') EXCEPT
                            !.copied = @ \cup CopiedByAlignXY(p_tiles)]
                   ELSE p_caller
    /\ StepDone
    /\ UNCHANGED <<p_in, p_mode, p_grid, f_loop, p_err, p_shape, p_offsets>>
    /\ UNCHANGED <<compVars, gridVars, taskVars>>

(* _find_tiling(reference_regions, tiling_mode) up to the return of        *)
(* _snap_to_grid_tiling                                                    *)
FindTilingStep ==
    /\ p_pc = "find_tiling"
    /\ LET r == CalculateSnapToGridOffset(ReferenceRegions(p_tiles))
       IN CASE p_in.mode \in {"Inplace", "No Tiling"} ->
                 /\ p_offsets' = NoTiling(ReferenceRegions(p_tiles))
                 /\ p_pc' = "returned"
                 /\ UNCHANGED <<p_grid, p_err>>
            [] p_in.mode \in {"Auto", "Snap to Grid"} ->
                 /\ p_grid' = SnapCheckIfRegularGrid(ReferenceRegions(p_tiles))
                 /\ IF r.err = "none"
                    THEN p_offsets' = r.offsets /\ p_pc' = "returned" /\ p_err' = p_err
                    ELSE IF p_in.mode = "Auto" /\ AutoTilingCatches(r.err)
                    THEN p_pc' = "snap_to_corners" /\ UNCHANGED <<p_offsets, p_err>>
                    ELSE Raise(r.err) /\ p_offsets' = p_offsets
            [] p_in.mode = "Snap to Corners" ->
                 /\ p_pc' = "snap_to_corners"
                 /\ UNCHANGED <<p_grid, p_offsets, p_err>>
            [] OTHER ->
                 /\ Raise("ValueError")
                 /\ UNCHANGED <<p_grid, p_offsets>>
    /\ UNCHANGED <<p_in, p_tiles, p_mode, f_loop, p_shape, p_caller>>
    /\ UNCHANGED <<p_reg, compVars, gridVars, taskVars>>

(* _snap_to_corners_tiling(regions) *)
SnapToCornersStep ==
    /\ p_pc = "snap_to_corners"
    /\ LET r == CalculateSnapToCornerOffset(ReferenceRegions(p_tiles))
       IN IF r.err = "none"
          THEN p_offsets' = r.offsets /\ p_pc' = "returned" /\ p_err' = p_err
          ELSE Raise(r.err) /\ p_offsets' = p_offsets
    /\ p_mode' = "Snap to Corners"
    /\ UNCHANGED <<p_in, p_tiles, p_grid, f_loop, p_shape, p_caller>>
    /\ UNCHANGED <<p_reg, compVars, gridVars, taskVars>>

(* _tile_regions(regions, vector) as the regions it returns: every roi    *)
(* moved by the vector, so its x and y are fractions from here on          *)
TiledRegionsOf(regions, vector) ==
    [k \in 1..Len(regions) |->
        [regions[k] EXCEPT !.x = MoveRoiBy(TileGeometry(regions[k]), vector).x,
                           !.y = MoveRoiBy(TileGeometry(regions[k]), vector).y]]

(* the loop of apply_mosaic_tiling over the fields of view:                *)
(* tiled = _tile_regions(fov_tile.regions, instruction), and               *)
(* tiled_image.regions = aligned_regions; then the function returns, to    *)
(* the loop of apply_registration_pipeline when that called it             *)
TileRegionsStep ==
    /\ p_pc = "returned"
    /\ p_in.entry \in {"tiling", "registration"}
    /\ p_tiles' = ExtendAll([g \in 1..Len(FovNames(p_tiles)) |->
                                TiledRegionsOf(GroupByFov(p_tiles)[g], p_offsets[g])])
    /\ p_caller' = TileRegions(p_caller, p_tiles, p_offsets)
    /\ IF p_in.entry = "registration"
       THEN StepDone
       ELSE p_pc' = "tiled" /\ p_reg' = p_reg
    /\ UNCHANGED <<p_in, p_mode, p_grid, f_loop, p_err, p_shape, p_offsets>>
    /\ UNCHANGED <<compVars, gridVars, taskVars>>

(***************************************************************************)
(* The calls the placement pipeline is checked on                          *)
(***************************************************************************)

(* the longest tile list of the general family *)
MaxTiles == 3

Modes == {"auto", "grid", "free", "none"}

(* tiles of 2 x 2 world units, pixel size 1, on the positions 0..3 x 0..2: *)
(* apart, abutting, partly overlapping and coinciding tiles                *)
GeneralPositions == {<<x, y>> : x \in 0..3, y \in 0..2}

TilesAt(positions, z, t, dx, dy, ps) ==
    [k \in 1..Len(positions) |->
        NewTile(positions[k][1], positions[k][2], z, t, dx, dy, ps, k)]

GeneralLists == {TilesAt(ps, 0, 0, 2, 2, 1) : ps \in SeqsUpTo(GeneralPositions, MaxTiles)}

(* 2 x 3 tiles off the origin in x, y, z and t, for the axis corrections *)
CorrectionLists ==
    {TilesAt(ps, 4, 1, 2, 3, 1) : ps \in SeqsUpTo({<<1, 1>>, <<3, 2>>, <<2, 4>>}, 2) \ {<<>>}}

(* four 10 x 10 tiles with one unit of overlap, pixel size 1 *)
ScenarioTiles == TilesAt(<< <<0, 0>>, <<9, 0>>, <<0, 9>>, <<9, 9>> >>, 0, 0, 10, 10, 1)

(* a 1 x 1 tile inside a 1000 x 1000 tile: their IoU is 1 / 1000000 *)
EpsPairTiles ==
    <<NewTile(0, 0, 0, 0, 1000, 1000, 1, 1), NewTile(5, 5, 0, 0, 1, 1, 1, 2)>>

(* two abutting tiles on two planes *)
TwoPlaneTiles == <<NewTile(0, 0, 0, 0, 2, 2, 1, 1), NewTile(2, 0, 1, 0, 2, 2, 1, 2)>>

SpecialLists ==
    {ScenarioTiles, EpsPairTiles,
     \* unequal heights
     <<NewTile(0, 0, 0, 0, 2, 2, 1, 1), NewTile(2, 0, 0, 0, 2, 3, 1, 2)>>,
     \* unequal strides along x, along y
     TilesAt(<< <<0, 0>>, <<1, 0>>, <<3, 0>> >>, 0, 0, 2, 2, 1),
     TilesAt(<< <<0, 0>>, <<0, 1>>, <<0, 3>> >>, 0, 0, 2, 2, 1),
     \* a gap of one unit between 2 x 2 tiles, a stride of 5 for 4 x 4 tiles
     TilesAt(<< <<0, 0>>, <<3, 0>>, <<0, 3>>, <<3, 3>> >>, 0, 0, 2, 2, 1),
     TilesAt(<< <<0, 0>>, <<5, 0>> >>, 0, 0, 4, 4, 1),
     \* pixel size 2: 6 x 6 tiles with a stride of 5
     TilesAt(<< <<1, 1>>, <<6, 1>>, <<1, 6>> >>, 3, 0, 6, 6, 2),
     \* tiles on two planes
     TwoPlaneTiles}

PipeCall(ts, mode, swap_xy, invert_x, invert_y) ==
    [entry |-> "pipe", tiles |-> ts, mode |-> mode, writer |-> TRUE,
     swap_xy |-> swap_xy, invert_x |-> invert_x, invert_y |-> invert_y]

(* standard_stitching_pipe(tiles, mode) called on its own *)
StandalonePipeCall(ts, mode) ==
    [PipeCall(ts, mode, FALSE, FALSE, FALSE) EXCEPT !.writer = FALSE]

ResolveCall(ts, mode) ==
    [entry |-> "resolve", tiles |-> ts, mode |-> mode,
     swap_xy |-> FALSE, invert_x |-> FALSE, invert_y |-> FALSE]

TilingModes == {"Auto", "Snap to Grid", "Snap to Corners", "Inplace", "No Tiling"}

(* _find_tiling(regions, tiling_mode) on tiles given in pixel coordinates *)
TilingCall(ts, mode) ==
    [entry |-> "tiling", tiles |-> [k \in 1..Len(ts) |-> [ts[k] EXCEPT !.space = "pixel"]],
     mode |-> mode, swap_xy |-> FALSE, invert_x |-> FALSE, invert_y |-> FALSE]

(* three 3 x 3 tiles with pixel size 2: a tile is one and a half pixels    *)
(* long, and the conversion to pixel space truncates                       *)
FractionalPixelTiles == TilesAt(<< <<0, 0>>, <<2, 0>>, <<4, 0>> >>, 0, 0, 3, 3, 2)

PipeCalls ==
    {PipeCall(ts, m, FALSE, FALSE, FALSE) :
        ts \in GeneralLists \cup SpecialLists \cup {FractionalPixelTiles}, m \in Modes}

StandalonePipeCalls ==
    {StandalonePipeCall(ts, m) :
        ts \in {l \in GeneralLists : Len(l) <= 2} \cup {TwoPlaneTiles}, m \in Modes}

CorrectionCalls ==
    {PipeCall(ts, m, s, ix, iy) : ts \in CorrectionLists, m \in Modes,
                                  s \in BOOLEAN, ix \in BOOLEAN, iy \in BOOLEAN}

ResolveCalls ==
    {ResolveCall(ts, m) :
        ts \in {l \in GeneralLists : Len(l) <= 2} \cup {TwoPlaneTiles},
        m \in Modes \cup {"other"}}

(* the tiled images of the registration pipeline, in world coordinates:    *)
(* off the origin on every axis, 3 x 3 tiles with pixel size 2, 2 x 2      *)
(* tiles, and three tiles for two fields of view                           *)
RegistrationLists ==
    CorrectionLists
    \cup {<<>>, TilesAt(<< <<1, 1>>, <<4, 1>> >>, 0, 0, 3, 3, 2),
          TilesAt(<< <<1, 1>>, <<3, 2>> >>, 0, 0, 2, 2, 1),
          TilesAt(<< <<3, 1>> >>, 0, 0, 2, 2, 1),
          TilesAt(<< <<3, 2>>, <<5, 2>>, <<1, 1>> >>, 0, 0, 2, 2, 1)}

(* the fields of view of n tiles, two names at most, the first tile in the *)
(* first                                                                   *)
FovNamings(n) == {f \in [1..n -> 1..2] : n > 0 => f[1] = 1}

(* build_default_registration_pipeline *)
DefaultPipeline ==
    <<"remove_offsets", "align_to_pixel_grid", "fov_alignment_corrections", "tile_regions">>

(* pipelines of one step, and one with a step nobody registered *)
ShortPipelines ==
    {<<"remove_offsets">>, <<"align_to_pixel_grid">>, <<"fov_alignment_corrections">>,
     <<"remove_offsets", "other">>}

(* no call of add_registration_func, and the calls made: the caller's      *)
(* function `other` under its own name, in the place of remove_offsets,    *)
(* under the taken name remove_offsets, and apply_remove_offsets once more *)
(* under the name other                                                    *)
NoAdd == [called |-> FALSE, function |-> "None", name |-> "None", overwrite |-> FALSE]

AddCalls ==
    {[called |-> TRUE, function |-> "other", name |-> "None", overwrite |-> FALSE],
     [called |-> TRUE, function |-> "other", name |-> "remove_offsets", overwrite |-> TRUE],
     [called |-> TRUE, function |-> "other", name |-> "remove_offsets", overwrite |-> FALSE],
     [called |-> TRUE, function |-> "apply_remove_offsets", name |-> "other",
      overwrite |-> FALSE]}

RegistrationCall(ts, fov, steps, mode, align_xy, add) ==
    [entry |-> "registration", tiles |-> ts, fov |-> fov, steps |-> steps, mode |-> mode,
     swap_xy |-> FALSE, invert_x |-> FALSE, invert_y |-> FALSE, align_xy |-> align_xy,
     add |-> add]

(* apply_registration_pipeline(tiled_image, pipeline_config) *)
RegistrationCalls ==
    {RegistrationCall(ts, SubSeq(f, 1, Len(ts)), DefaultPipeline, m, a, NoAdd) :
        ts \in RegistrationLists, f \in FovNamings(MaxTiles), m \in TilingModes, a \in BOOLEAN}
    \cup {RegistrationCall(ts, SubSeq(f, 1, Len(ts)), steps, "Auto", a, add) :
            ts \in RegistrationLists, f \in FovNamings(MaxTiles),
            steps \in ShortPipelines, a \in BOOLEAN, add \in {NoAdd} \cup AddCalls}

TilingCalls ==
    {TilingCall(ts, m) : ts \in GeneralLists \cup SpecialLists, m \in TilingModes \cup {"other"}}

InitPlace ==
    /\ \/ p_in \in PipeCalls
       \/ p_in \in StandalonePipeCalls
       \/ p_in \in CorrectionCalls
       \/ p_in \in ResolveCalls
       \/ p_in \in TilingCalls
       \/ p_in \in RegistrationCalls
    /\ p_pc = CASE p_in.entry = "pipe" ->
                      IF p_in.writer THEN "apply_stitching_pipe" ELSE "check_coplanar"
                 [] p_in.entry = "resolve" -> "resolve"
                 [] p_in.entry = "registration" ->
                      IF p_in.add.called THEN "add_registration_func"
                      ELSE PcOfStep(RegistrationRegistry, 1)
                 [] OTHER -> "find_tiling"
    /\ p_tiles = p_in.tiles
    /\ p_mode = "unset"
    /\ p_grid = NoGridResult
    /\ f_loop = NoLoop
    /\ p_err = "none"
    /\ p_shape = <<>>
    /\ p_offsets = <<>>
    /\ p_caller = [alias |-> TRUE, tiles |-> Geometries(p_in.tiles), copied |-> {}]
    /\ p_reg = NoRegistration
    /\ CompIdle
    /\ GridIdle
    /\ TaskIdle

NextPlace ==
    \/ ApplyStitchingPipeStep
    \/ CheckCoplanarStep
    \/ SwapXYStep
    \/ InvertXStep
    \/ InvertYStep
    \/ ResetOriginStep
    \/ SortStep
    \/ RemoveOffsetXYStep
    \/ RemoveOffsetZTStep
    \/ ResolveStep
    \/ GridSnapStep
    \/ FreePassStart
    \/ FreeExamine
    \/ FreeInnerDone
    \/ FreePassEnd
    \/ ToPixelStep
    \/ PixelGapsStep
    \/ FindShapeStep
    \/ AddRegistrationFuncStep
    \/ LookupFailsStep
    \/ UserFunctionStep
    \/ RemoveOffsetsStep
    \/ AlignToPixelGridStep
    \/ FovAlignmentStep
    \/ FindTilingStep
    \/ SnapToCornersStep
    \/ TileRegionsStep

SpecPlace == InitPlace /\ [][NextPlace]_vars

(* resolve_tiles_overlap(tiles, mode="free") on coplanar lists: the lists  *)
(* of the general family whose first tile is at the origin, the empty list *)
(* and the special lists                                                   *)
FreeLists ==
    {l \in GeneralLists \cup SpecialLists :
        /\ \A k \in 1..Len(l) : IsCoplanar(l[1], l[k])
        /\ l \in GeneralLists /\ Len(l) > 0 => l[1].x = 0 /\ l[1].y = 0}

FreeCalls == {ResolveCall(ts, "free") : ts \in FreeLists}

InitFree ==
    /\ p_in \in FreeCalls
    /\ p_pc = "resolve"
    /\ p_tiles = p_in.tiles
    /\ p_mode = "unset"
    /\ p_grid = NoGridResult
    /\ f_loop = NoLoop
    /\ p_err = "none"
    /\ p_shape = <<>>
    /\ p_offsets = <<>>
    /\ p_caller = [alias |-> TRUE, tiles |-> Geometries(p_in.tiles), copied |-> {}]
    /\ p_reg = NoRegistration
    /\ CompIdle
    /\ GridIdle
    /\ TaskIdle

NextFree ==
    \/ ResolveStep
    \/ FreePassStart
    \/ FreeExamine
    \/ FreeInnerDone
    \/ FreePassEnd

(* the procedure is one sequential loop: a step that can be taken is taken *)
SpecFree == InitFree /\ [][NextFree]_vars /\ WF_vars(NextFree)

(***************************************************************************)
(* The grid analysis on its own: check_if_regular_grid called on a perfect *)
(* lattice of equal tiles.                                                 *)
(***************************************************************************)

(* the most rows and the most columns of a lattice *)
MaxRows == 3

MaxCols == 3

(* the tiles of the lattice row by row: tile (r, c) has its corner at      *)
(* (anchor_x + c * offset_x, anchor_y + r * offset_y)                      *)
LatticeTiles(rows, cols, length_x, length_y, offset_x, offset_y, anchor_x, anchor_y) ==
    [n \in 1..(rows * cols) |->
        NewTile(anchor_x + ((n - 1) % cols) * offset_x,
                anchor_y + ((n - 1) \div cols) * offset_y,
                0, 0, length_x, length_y, 1, n)]

(* the orders a caller may list the tiles in *)
Reorder(seq, order) ==
    LET n == Len(seq)
    IN CASE order = "reversed" -> [k \in 1..n |-> seq[n + 1 - k]]
         [] order = "rotated" -> [k \in 1..n |-> seq[(k % n) + 1]]
         [] OTHER -> seq

GridCalls ==
    {[entry |-> "analyze", rows |-> r, cols |-> c, length_x |-> lx, length_y |-> ly,
      offset_x |-> ox, offset_y |-> oy, anchor_x |-> ax, anchor_y |-> ay,
      tiles |-> Reorder(LatticeTiles(r, c, lx, ly, ox, oy, ax, ay), ord)] :
        r \in 1..MaxRows, c \in 1..MaxCols, lx \in {2, 3}, ly \in {2, 3},
        ox \in 1..3, oy \in 1..3, ax \in {-1, 0, 2}, ay \in {-1, 0, 2},
        ord \in {"listed", "reversed", "rotated"}}

(* four 200 x 200 tiles that nearly coincide: strides of 1 unit, below the *)
(* snap tolerance of 2 units, two of the tiles at the same place           *)
NearCoincidentTiles ==
    TilesAt(<< <<0, 0>>, <<0, 0>>, <<1, 0>>, <<0, 1>> >>, 0, 0, 200, 200, 1)

(* any list of tiles, for the grid snap and its repetition *)
SnapCalls ==
    {[entry |-> "snap", tiles |-> ts] :
        ts \in GeneralLists \cup SpecialLists \cup {NearCoincidentTiles}}

InitGrid ==
    /\ \/ g_in \in GridCalls
       \/ g_in \in SnapCalls
    /\ g_pc = "new"
    /\ g_out = NoGridResult
    /\ g_snap = NoSnap
    /\ g_recheck = NoGridResult
    /\ g_resnap = NoSnap
    /\ CompIdle
    /\ PlaceIdle
    /\ TaskIdle

(* check_if_regular_grid(tiles) *)
AnalyzeGrid ==
    /\ g_pc = "new"
    /\ g_out' = CheckIfRegularGrid(g_in.tiles)
    /\ g_pc' = "analyzed"
    /\ UNCHANGED <<g_in, g_snap, g_recheck, g_resnap, compVars, placeVars, taskVars>>

(* resolve_grid_tiles_overlap(tiles, grid_setup) after a successful analysis *)
SnapGrid ==
    /\ g_pc = "analyzed"
    /\ g_out.err = "none"
    /\ g_snap' = ResolveGridTilesOverlap(g_in.tiles, g_out.setup)
    /\ g_pc' = "snapped"
    /\ UNCHANGED <<g_in, g_out, g_recheck, g_resnap, compVars, placeVars, taskVars>>

(* check_if_regular_grid on the tiles a successful grid snap returned *)
RecheckGrid ==
    /\ g_pc = "snapped"
    /\ g_snap.err = "none"
    /\ g_recheck' = CheckIfRegularGrid(g_snap.tiles)
    /\ g_pc' = "rechecked"
    /\ UNCHANGED <<g_in, g_out, g_snap, g_resnap, compVars, placeVars, taskVars>>

(* resolve_grid_tiles_overlap on the snapped tiles when their analysis succeeded *)
ResnapGrid ==
    /\ g_pc = "rechecked"
    /\ g_recheck.err = "none"
    /\ g_resnap' = ResolveGridTilesOverlap(g_snap.tiles, g_recheck.setup)
    /\ g_pc' = "resnapped"
    /\ UNCHANGED <<g_in, g_out, g_snap, g_recheck, compVars, placeVars, taskVars>>

NextGrid ==
    \/ AnalyzeGrid
    \/ SnapGrid
    \/ RecheckGrid
    \/ ResnapGrid

SpecGrid == InitGrid /\ [][NextGrid]_vars

(***************************************************************************)
(* Properties of the compositor                                            *)
(***************************************************************************)

(* the materialization asked for every chunk and every chunk is finished *)
WholeArrayDone ==
    /\ c_pc = "computing"
    /\ wanted = graph.out_keys
    /\ wanted \subseteq DOMAIN cache

(* the bounds of region li (0-based) as the plan sees them *)
RegionBounds(li) == AllLoaderBounds(c_in.regions, c_in.shape)[li + 1]

(* region li contains the point p of the target array *)
Contains(li, p) ==
    \A ax \in 1..Len(p) : RegionBounds(li)[ax][1] <= p[ax] /\ p[ax] < RegionBounds(li)[ax][2]

(* the regions (0-based indices) that contain p *)
Covering(p) == {li \in 0..(Len(c_in.regions) - 1) : Contains(li, p)}

(* the value the coverage law asks for at point p *)
LawValue(p) ==
    IF Covering(p) = {} THEN c_in.fill_value
    ELSE LET li == CHOOSE x \in Covering(p) : \A y \in Covering(p) : y <= x
         IN LoaderArray(li).val[
                [ax \in 1..Len(p) |-> p[ax] - RegionBounds(li)[ax][1]]]

(* the bounds of the chunk an output key names *)
KeyChunkBounds(k) ==
    LET cr == BuildChunkRanges(c_in.shape, c_in.chunks)
    IN [ax \in 1..Len(cr) |-> cr[ax][k[2][ax] + 1]]

(* the finished output chunks *)
FinishedChunks == IF c_pc = "computing" THEN wanted \cap DOMAIN cache ELSE {}

(* C1: under a memoizing, dependency-respecting executor every region's    *)
(* loader is invoked at most once during a materialization, whatever set   *)
(* of chunks is asked for and in whatever order the nodes run.             *)
C1_LoaderAtMostOnce == \A i \in DOMAIN calls : calls[i] <= 1

(* a region whose loader was invoked once while two finished chunks depend on it *)
C1_Witness ==
    /\ c_pc = "computing"
    /\ \E i \in DOMAIN calls :
         /\ calls[i] = 1
         /\ Cardinality({k \in FinishedChunks :
                LoaderKey(graph.token, i - 1) \in Deps(graph.output_layer[k])}) >= 2

(* C2: coverage law. Every finished chunk has the chunk's shape and holds, *)
(* at every point, the value of the last region (input order) containing   *)
(* the point, or fill_value where no region contains it.                   *)
C2_CoverageLaw ==
    \A k \in FinishedChunks :
        LET cb == KeyChunkBounds(k)
            res == cache[k]
        IN /\ ~res.err
           /\ res.shape = [ax \in 1..Len(cb) |-> cb[ax][2] - cb[ax][1]]
           /\ \A c \in Box(res.shape) :
                res.val[c] = LawValue([ax \in 1..Len(cb) |-> c[ax] + cb[ax][1]])

(* a finished chunk with a point that two regions contain, a point that no *)
(* region contains, and a region that reaches beyond the chunk             *)
C2_Witness ==
    \E k \in FinishedChunks :
        LET cb == KeyChunkBounds(k)
            pts == {[ax \in 1..Len(cb) |-> c[ax] + cb[ax][1]] :
                       c \in Box([ax \in 1..Len(cb) |-> cb[ax][2] - cb[ax][1]])}
        IN /\ \E p \in pts : Cardinality(Covering(p)) >= 2
           /\ \E p \in pts : Covering(p) = {}
           /\ \E p \in pts : \E li \in Covering(p) : \E ax \in 1..Len(cb) :
                  RegionBounds(li)[ax][2] > cb[ax][2]

(* C3: once the whole array has been materialized, every region that spans *)
(* at least one chunk (a non-empty box) has had its loader invoked exactly *)
(* once: N such regions give N invocations.                                *)
C3_LoaderExactlyOnce ==
    WholeArrayDone =>
        \A i \in DOMAIN calls :
            (\A ax \in 1..Len(c_in.shape) :
                RegionBounds(i - 1)[ax][1] < RegionBounds(i - 1)[ax][2])
            => calls[i] = 1

(* the scaled (100, 100) / 40 scenario: all nine chunks finished, one invocation *)
C3_Witness ==
    /\ WholeArrayDone
    /\ c_in = ScenarioCompInput
    /\ Cardinality(wanted) = 9
    /\ calls = <<1>>

(***************************************************************************)
(* Properties of the grid analysis                                         *)
(***************************************************************************)

(* |a - b| <= 1e-6 *)
Within(a, b) == ~GtRat(Abs(a - b), GridEpsNum, GridEpsDen)

(* the analysis succeeded and returned the parameters of the lattice *)
LatticeRecovered ==
    /\ g_out.err = "none"
    /\ Within(g_out.setup.length_x, g_in.length_x)
    /\ Within(g_out.setup.length_y, g_in.length_y)
    /\ Within(g_out.setup.offset_x, g_in.offset_x)
    /\ Within(g_out.setup.offset_y, g_in.offset_y)
    /\ g_out.setup.num_x = g_in.cols
    /\ g_out.setup.num_y = g_in.rows

(* C5 as stated: for every perfectly regular lattice of R rows by C        *)
(* columns of equal tiles with positive offsets the analysis succeeds and  *)
(* returns the lengths and offsets within 1e-6, num_x = C and num_y = R.   *)
C5_LatticeRecovered == (g_in.entry = "analyze" /\ g_pc = "analyzed") => LatticeRecovered

(* C5 amended: the same for every such lattice with at least two rows and  *)
(* two columns whose minimum corner is the origin.                         *)
C5_AnchoredLatticeRecovered ==
    (/\ g_in.entry = "analyze"
     /\ g_pc = "analyzed"
     /\ g_in.rows >= 2
     /\ g_in.cols >= 2
     /\ g_in.anchor_x = 0
     /\ g_in.anchor_y = 0) => LatticeRecovered

(* a 2 x 3 lattice at the origin, listed last tile first, with overlapping *)
(* tiles along x and gaps along y, was analysed and recovered              *)
C5_Witness ==
    /\ g_in.entry = "analyze"
    /\ g_pc = "analyzed"
    /\ g_in.rows = 2
    /\ g_in.cols = 3
    /\ g_in.anchor_x = 0
    /\ g_in.anchor_y = 0
    /\ g_in.offset_x < g_in.length_x
    /\ g_in.offset_y > g_in.length_y
    /\ g_in.tiles[1].id = 6
    /\ LatticeRecovered

(* the two lists hold the same tiles in the same order, each at the same   *)
(* position and with the same size                                         *)
SamePlacement(a, b) ==
    /\ Len(a) = Len(b)
    /\ \A k \in 1..Len(a) :
           /\ a[k].id = b[k].id
           /\ a[k].x = b[k].x
           /\ a[k].y = b[k].y
           /\ a[k].z = b[k].z
           /\ a[k].t = b[k].t
           /\ a[k].dx = b[k].dx
           /\ a[k].dy = b[k].dy

(* the second analysis and the second snap succeeded and the second snap  *)
(* returned every tile where the first snap had put it                     *)
SnapRepeated ==
    /\ g_pc = "rechecked" => g_recheck.err = "none"
    /\ g_pc = "resnapped" =>
           /\ g_resnap.err = "none"
           /\ SamePlacement(g_resnap.tiles, g_snap.tiles)

(* the list is in the order and the frame standard_stitching_pipe gives it *)
(* before the overlap resolution: sort_tiles_by_distance and               *)
(* remove_tiles_offset_xy leave it as it is, so it is sorted by distance   *)
(* from its minimum corner and that corner is the origin; no tile need lie *)
(* on the corner                                                           *)
SortedFromOrigin(tiles) ==
    /\ Len(tiles) > 0
    /\ SamePlacement(tiles, RemoveTilesOffsetXY(SortTilesByDistance(tiles)))

(* C11 as stated: on the output of a successful grid snap the grid         *)
(* analysis succeeds again, the grid snap succeeds again, and it returns   *)
(* every tile at exactly the position the first snap gave it.              *)
C11_SnapIdempotent == SnapRepeated

(* C11 amended: the same for every tile list that is sorted by distance    *)
(* from its minimum corner and has that corner at the origin, whether or   *)
(* not a tile lies on the corner.                                          *)
C11_SortedSnapIdempotent == SortedFromOrigin(g_in.tiles) => SnapRepeated

(* three overlapping tiles of a 2 x 2 grid whose corner tile is missing,   *)
(* sorted and with their minimum corner at the origin, were snapped, the   *)
(* snap moved a tile along x and a tile along y, and the second analysis   *)
(* and snap ran on the result and left every tile in place                 *)
C11_Witness ==
    /\ g_pc = "resnapped"
    /\ g_in.entry = "snap"
    /\ Len(g_in.tiles) = 3
    /\ SortedFromOrigin(g_in.tiles)
    /\ \A k \in 1..3 : g_in.tiles[k].x # 0 \/ g_in.tiles[k].y # 0
    /\ \E k \in 1..3 : \E j \in 1..3 :
           /\ g_snap.tiles[k].id = g_in.tiles[j].id
           /\ g_snap.tiles[k].x # g_in.tiles[j].x
    /\ \E k \in 1..3 : \E j \in 1..3 :
           /\ g_snap.tiles[k].id = g_in.tiles[j].id
           /\ g_snap.tiles[k].y # g_in.tiles[j].y
    /\ SamePlacement(g_resnap.tiles, g_snap.tiles)

(***************************************************************************)
(* Properties of the placement pipeline                                    *)
(***************************************************************************)

(* resolve_random_tiles_overlap has just returned its tiles *)
FreeReturned ==
    /\ p_mode = "free"
    /\ p_pc = AfterResolve

AnyCorrection == p_in.swap_xy \/ p_in.invert_x \/ p_in.invert_y

(* every tile of the list now has the loader and the origin of a tile of the list before *)
DerivedFrom(now, before) ==
    \A k \in 1..Len(now) :
        \E m \in 1..Len(before) :
            /\ now[k].id = before[m].id
            /\ now[k].ox = before[m].ox
            /\ now[k].oy = before[m].oy
            /\ now[k].oz = before[m].oz

(* C4 as stated: whenever free-mode overlap resolution returns, every pair *)
(* of distinct output tiles has an XY IoU strictly below eps.              *)
C4_IoUBelowEps ==
    FreeReturned =>
        \A i \in 1..Len(p_tiles) : \A j \in 1..Len(p_tiles) :
            i # j => IouLtEps(IouXY(p_tiles[i], p_tiles[j]))

(* C4 amended: whenever free-mode overlap resolution returns, every pair   *)
(* of distinct output tiles has an XY IoU of at most eps.                  *)
C4_IoUAtMostEps ==
    FreeReturned =>
        \A i \in 1..Len(p_tiles) : \A j \in 1..Len(p_tiles) :
            i # j => ~IouGtEps(IouXY(p_tiles[i], p_tiles[j]))

(* free mode returned two tiles, one of them moved away from where         *)
(* resolve_tiles_overlap received it                                       *)
C4_Witness ==
    /\ FreeReturned
    /\ p_in.entry = "resolve"
    /\ Len(p_tiles) = 2
    /\ \E k \in 1..2 : \E m \in 1..2 :
         /\ p_tiles[k].id = p_in.tiles[m].id
         /\ <<p_tiles[k].x, p_tiles[k].y>> # <<p_in.tiles[m].x, p_in.tiles[m].y>>
    /\ \A i \in 1..2 : \A j \in 1..2 : i # j => ~IouGtEps(IouXY(p_tiles[i], p_tiles[j]))

(* C6: when the grid snap assigns a number of tiles different from the     *)
(* number of input tiles the call fails with that error, in auto mode too: *)
(* no free-mode pass is started, nothing is returned, and the failure is   *)
(* final.                                                                  *)
C6_SnapMismatchFatal ==
    [][/\ (/\ p_pc = "grid_snap"
           /\ Len(GridSnapLoop(SortTilesByDistance(p_tiles), p_grid.setup,
                               GridCells(p_grid.setup.num_x, p_grid.setup.num_y),
                               p_grid.setup.num_x * p_grid.setup.num_y)) # Len(p_tiles))
          => (/\ p_pc' = "failed"
              /\ p_err' = "ValueError: grid tiling resolution"
              /\ f_loop' = NoLoop
              /\ p_mode' = "unset"
              /\ p_tiles' = p_tiles)
       /\ p_pc = "failed" => (p_pc' = "failed" /\ p_err' = p_err)]_vars

(* an auto-mode call failed in the grid snap: two tiles on one position *)
C6_Witness ==
    /\ p_in.mode = "auto"
    /\ p_pc = "failed"
    /\ p_err = "ValueError: grid tiling resolution"
    /\ p_grid.err = "none"
    /\ f_loop = NoLoop

GridCheckFailed == p_grid.err \notin {"unchecked", "none"}

(* the error of the grid check is the error the call ended with *)
GridErrorReachedCaller == p_pc = "failed" /\ p_err = p_grid.err

(* C7 as stated: in auto mode, when the grid check reports a failure,      *)
(* whatever the reason, the fallback is entered (free-mode resolution; the *)
(* corner snap in the Auto tiling of the registration pipeline) and the    *)
(* error of the grid check never reaches the caller.                       *)
C7_AutoFallsBackAnyReason ==
    /\ (p_in.entry \in {"pipe", "resolve"} /\ p_in.mode = "auto" /\ GridCheckFailed) =>
           /\ f_loop # NoLoop
           /\ p_err # "ValueError: not on a regular grid"
           /\ p_mode \in {"unset", "free"}
           /\ p_pc \notin {"grid_snap", "pixel_gaps"}
    /\ (p_in.entry \in {"tiling", "registration"} /\ p_in.mode = "Auto"
            /\ GridCheckFailed) =>
           /\ ~GridErrorReachedCaller
           /\ p_pc = "snap_to_corners" \/ p_mode = "Snap to Corners"

(* C7 amended: _resolve_auto_mode enters free-mode resolution for every    *)
(* reason the grid check reports and the error of the grid check never     *)
(* reaches the caller; the Auto tiling of the registration pipeline goes   *)
(* on with the corner snap when the grid check raises NotAGridError, and   *)
(* lets every other error of the grid check (NotTilableError for unequal   *)
(* tile lengths, ValueError for an empty list or tiles in world            *)
(* coordinates) reach the caller without a fallback.                       *)
C7_AutoFallsBack ==
    /\ (p_in.entry \in {"pipe", "resolve"} /\ p_in.mode = "auto" /\ GridCheckFailed) =>
           /\ f_loop # NoLoop
           /\ p_err # "ValueError: not on a regular grid"
           /\ p_mode \in {"unset", "free"}
           /\ p_pc \notin {"grid_snap", "pixel_gaps"}
    /\ (p_in.entry \in {"tiling", "registration"} /\ p_in.mode = "Auto"
            /\ p_grid.err = "NotAGridError") =>
           /\ p_err # "NotAGridError"
           /\ p_pc = "snap_to_corners" \/ p_mode = "Snap to Corners"
    /\ (p_in.entry \in {"tiling", "registration"} /\ p_in.mode = "Auto"
            /\ p_grid.err \in {"NotTilableError", "ValueError"}) =>
           /\ GridErrorReachedCaller
           /\ p_mode # "Snap to Corners"
           /\ p_offsets = <<>>

(* an Auto tiling of a slanted list caught NotAGridError and tiled the     *)
(* regions by the corner snap                                              *)
C7_Witness ==
    /\ p_in.entry = "tiling"
    /\ p_in.mode = "Auto"
    /\ p_grid.err = "NotAGridError"
    /\ p_mode = "Snap to Corners"
    /\ p_pc = "tiled"
    /\ p_err = "none"

(* C8: in grid mode a failed grid check is fatal: the call raises, returns *)
(* no tiles and starts no free-mode pass.                                  *)
C8_GridModeFatal ==
    (p_in.entry \in {"pipe", "resolve"} /\ p_in.mode = "grid" /\ GridCheckFailed) =>
        /\ p_pc = "failed"
        /\ p_err = "ValueError: not on a regular grid"
        /\ f_loop = NoLoop
        /\ p_mode = "unset"
        /\ p_shape = <<>>

(* a grid-mode call of tiles with unequal strides failed *)
C8_Witness ==
    /\ p_in.mode = "grid"
    /\ p_grid.err = "Not all x offsets are the same"
    /\ p_pc = "failed"

(* C9: every step but the origin reset of a corrected call hands each tile *)
(* on with the origin it had, so without swap or invert correction every   *)
(* tile always carries the origin of the input tile it derives from.       *)
C9_OriginPreserved ==
    [][/\ ~(p_pc = "reset_origin" /\ AnyCorrection) => DerivedFrom(p_tiles', p_tiles)
       /\ (p_in.entry # "none" /\ ~AnyCorrection) => DerivedFrom(p_tiles', p_in.tiles)]_vars

(* an uncorrected call returned tiles, one of them away from its origin *)
C9_Witness ==
    /\ p_in.entry = "pipe"
    /\ ~AnyCorrection
    /\ p_pc = "returned"
    /\ p_mode \in {"grid", "free"}
    /\ Len(p_tiles) >= 2
    /\ \E k \in 1..Len(p_tiles) : <<p_tiles[k].x, p_tiles[k].y>> # <<p_tiles[k].ox, p_tiles[k].oy>>
    /\ DerivedFrom(p_tiles, p_in.tiles)

ScenarioCall == PipeCall(ScenarioTiles, "grid", FALSE, FALSE, FALSE)

(* C10: the four 10 x 10 tiles at (0,0), (9,0), (0,9), (9,9) with pixel    *)
(* size 1 in grid mode: the call does not fail, it returns one tile on     *)
(* each of (0,0), (10,0), (0,10), (10,10), and the canvas is (20, 20).     *)
C10_Scenario ==
    p_in = ScenarioCall =>
        /\ p_pc # "failed"
        /\ p_pc \in {"returned", "shaped"} =>
             /\ Len(p_tiles) = 4
             /\ \A pos \in {<<0, 0>>, <<10, 0>>, <<0, 10>>, <<10, 10>>} :
                  \E k \in 1..4 :
                      /\ <<p_tiles[k].x, p_tiles[k].y>> = pos
                      /\ <<p_tiles[k].ox * 10, p_tiles[k].oy * 10>> = <<pos[1] * 9, pos[2] * 9>>
        /\ p_pc = "shaped" => p_shape = <<20, 20>>

C10_Witness ==
    /\ p_in = ScenarioCall
    /\ p_pc = "shaped"
    /\ p_shape = <<20, 20>>
    /\ {<<p_tiles[k].x, p_tiles[k].y>> : k \in 1..Len(p_tiles)}
         = {<<0, 0>>, <<10, 0>>, <<0, 10>>, <<10, 10>>}

(* the position of a statement in standard_stitching_pipe; the statements  *)
(* of resolve_tiles_overlap and its loops are one stage                    *)
StageOf(pc) ==
    CASE pc = "apply_stitching_pipe" -> -1
      [] pc = "check_coplanar" -> 0
      [] pc = "swap_xy" -> 1
      [] pc = "invert_x" -> 2
      [] pc = "invert_y" -> 3
      [] pc = "reset_origin" -> 4
      [] pc = "sort" -> 5
      [] pc = "remove_offset_xy" -> 6
      [] pc = "remove_offset_zt" -> 7
      [] pc \in {"resolve", "grid_snap", "free_pass", "free_scan"} -> 8
      [] pc = "to_pixel" -> 9
      [] pc = "pixel_gaps" -> 10
      [] pc = "returned" -> 11
      [] OTHER -> 12

(* the grid snap is what produced the tiles of this call *)
GridModeUsed ==
    /\ p_in.mode \in {"auto", "grid"}
    /\ p_grid.err = "none"
    /\ p_mode = "grid"

(* C12: a call of the pipeline goes through its stages in the one order    *)
(* corrections, origin reset, sort, XY offset removal, Z/T offset removal, *)
(* overlap resolution, pixel conversion, pixel-gap closing: it never goes  *)
(* back to a stage and never enters one twice, it skips none but the gap   *)
(* closing, the origin is reset exactly when a correction was requested,   *)
(* and the gaps are closed exactly when the grid snap produced the tiles.  *)
C12_FixedStageOrder ==
    [][p_in.entry = "pipe" =>
        /\ StageOf(p_pc') >= StageOf(p_pc)
        /\ (p_pc' # p_pc /\ StageOf(p_pc') = StageOf(p_pc)) =>
               (StageOf(p_pc) = 8 /\ p_pc' # "resolve")
        /\ (StageOf(p_pc') > StageOf(p_pc) /\ p_pc' # "failed") =>
               \/ StageOf(p_pc') = StageOf(p_pc) + 1
               \/ p_pc = "to_pixel" /\ p_pc' = "returned" /\ ~GridModeUsed
        /\ p_pc = "reset_origin" =>
               p_tiles' = IF AnyCorrection THEN ResetTilesOrigin(p_tiles) ELSE p_tiles
        /\ p_pc' = "pixel_gaps" => (p_pc = "to_pixel" /\ GridModeUsed)
        /\ (p_pc = "to_pixel" /\ p_pc' = "returned") => p_mode \in {"free", "none"}]_vars

(* a call with a correction, in auto mode, whose tiles the grid snap       *)
(* placed, has gone through the gap closing and returned with the origins  *)
(* reset                                                                   *)
C12_Witness ==
    /\ p_in.entry = "pipe"
    /\ p_in.mode = "auto"
    /\ p_in.swap_xy
    /\ p_pc = "returned"
    /\ GridModeUsed
    /\ Len(p_tiles) = 2
    /\ \E k \in 1..2 : p_tiles[k].ox # p_in.tiles[k].ox

(***************************************************************************)
(* Properties of the plan construction                                     *)
(***************************************************************************)

(* the keys a node of plan g needs *)
PlanDeps(g, k) ==
    IF k \in DOMAIN g.loader_layer THEN {} ELSE Deps(g.output_layer[k])

(* the two plans have the same node keys and every node the same dependencies *)
SamePlan(g1, g2) ==
    /\ g1.error = "none"
    /\ g2.error = "none"
    /\ DOMAIN g1.loader_layer = DOMAIN g2.loader_layer
    /\ DOMAIN g1.output_layer = DOMAIN g2.output_layer
    /\ g1.out_keys = g2.out_keys
    /\ \A k \in DOMAIN g1.loader_layer \cup DOMAIN g1.output_layer :
           PlanDeps(g1, k) = PlanDeps(g2, k)

(* C13: a second construction with equal shape, chunk shape, dtype, fill   *)
(* value and region bounds in the same order returns a plan with the same  *)
(* node keys and the same dependencies between them.                       *)
C13_PlanDeterminism == c_pc = "rebuilt" => SamePlan(graph, replan.graph)

(* two regions with the same box were planned a second time from slices    *)
(* written differently, and the plan has a chunk that depends on both      *)
C13_Witness ==
    /\ c_pc = "rebuilt"
    /\ Len(c_in.regions) = 2
    /\ replan.input.regions # c_in.regions
    /\ \E k \in graph.out_keys : Cardinality(PlanDeps(replan.graph, k)) = 2
    /\ SamePlan(graph, replan.graph)

(* C14: arguments whose chunk shape or whose region slices do not have the *)
(* number of axes of the target shape never get a plan: the construction   *)
(* ends with an exception, so no materialization starts and no loader runs.*)
C14_AxisMismatchRejected ==
    AxisMismatch(c_in) =>
        /\ c_pc \in {"new", "failed"}
        /\ c_pc = "failed" => graph.error \in {"ValueError", "IndexError"}
        /\ wanted = {}
        /\ cache = <<>>
        /\ \A i \in DOMAIN calls : calls[i] = 0

(* a construction whose chunk shape fits the canvas but whose second      *)
(* region has a single slice has failed with the IndexError                *)
C14_Witness ==
    /\ c_pc = "failed"
    /\ Len(c_in.chunks) = 2
    /\ Len(c_in.regions) = 2
    /\ Len(c_in.regions[1]) = 2
    /\ Len(c_in.regions[2]) = 1
    /\ graph.error = "IndexError"

(* C15: the construction invokes no loader: it leaves every invocation     *)
(* count as it was, the plan it returns holds tasks and no loaded data,    *)
(* and a loader has run only once an executor is materializing chunks.     *)
C15_ConstructionRunsNoLoader ==
    /\ c_pc # "computing" =>
           /\ \A i \in DOMAIN calls : calls[i] = 0
           /\ running = {}
           /\ cache = <<>>
    /\ c_pc \in {"built", "rebuilt"} =>
           \A k \in DOMAIN graph.loader_layer : graph.loader_layer[k].kind = "loader"

(* a plan with two regions and four chunks, each depending on both loader  *)
(* nodes, has been built and no loader has been invoked                    *)
C15_Witness ==
    /\ c_pc = "built"
    /\ Len(c_in.regions) = 2
    /\ Cardinality(graph.out_keys) = 4
    /\ \A k \in graph.out_keys : Cardinality(Deps(graph.output_layer[k])) = 2
    /\ calls = <<0, 0>>

(***************************************************************************)
(* The view path against the composite path.                               *)
(***************************************************************************)

(* the finished output chunks the plan serves as a view of one loader's array *)
ViewChunks ==
    {k \in FinishedChunks : graph.output_layer[k].kind = "getitem"}

(* what _composite_chunk returns for the chunk of key k and the one region *)
(* that covers it                                                          *)
CompositeOfView(k) ==
    LET li == graph.output_layer[k].refs[1].li
    IN CompositeChunk(KeyChunkBounds(k), c_in.dtype, c_in.fill_value,
                      <<[data |-> LoaderArray(li),
                         bounds |-> AllLoaderBounds(c_in.regions, c_in.shape)[li + 1]]>>)

(* the same array: shape, values, dtype (hence the same bytes) and outcome *)
SameBytes(a, b) ==
    /\ a.shape = b.shape
    /\ a.val = b.val
    /\ a.dtype = b.dtype
    /\ a.err = b.err

(* C16: a chunk overlapped by exactly one region that fully covers it is   *)
(* served by the view path, and the chunk is byte-for-byte what the        *)
(* composite path returns for the same chunk and region                    *)
C16_ViewEqualsComposite ==
    \A k \in ViewChunks : SameBytes(cache[k], CompositeOfView(k))

(***************************************************************************)
(* The geometry of the tiles a call received.                              *)
(***************************************************************************)

(* the caller's tiles have the position and size they were passed with *)
InputGeometryKept == p_caller.tiles = Geometries(p_in.tiles)

(* C17 as stated, for every placement entry point: whatever stage the call *)
(* has reached, the tiles the caller passed still have their original      *)
(* position and size                                                       *)
C17_InputGeometryKept == InputGeometryKept

(* C17 for the stages of standard_stitching_pipe and resolve_tiles_overlap: *)
(* at every stage and after the return the tiles the caller passed still    *)
(* have their original position and size                                    *)
C17_StitchingKeepsInputGeometry ==
    p_in.entry \in {"pipe", "resolve"} => InputGeometryKept

(* resolve_tiles_overlap has returned in free mode after relocating a tile *)
C17_Witness ==
    /\ p_in.entry = "resolve"
    /\ p_pc = "returned"
    /\ p_mode = "free"
    /\ Geometries(p_tiles) # Geometries(SortTilesByDistance(p_in.tiles))
    /\ InputGeometryKept

(***************************************************************************)
(* v1/_tile.py: tiles built with a known discrete shape, and Tile.load.    *)
(* Of the 5D shape (t, c, z, y, x) the axes y and x are modelled; the      *)
(* field shape is <<>> for shape=None.                                     *)
(***************************************************************************)

(* Tile._align_diag_to_shape on the XY components *)
AlignDiagToShape(tile, shape) ==
    IF tile.space = "real"
    THEN [dx |-> shape[2] * tile.ps, dy |-> shape[1] * tile.ps]
    ELSE [dx |-> shape[2], dy |-> shape[1]]

(* Tile.__init__: self._shape = shape, and with a shape given the diagonal *)
(* passed in is replaced by the one aligned to the shape                   *)
TileInit(tile, shape) ==
    IF shape = <<>>
    THEN [tile EXCEPT !.shape = <<>>]
    ELSE [tile EXCEPT !.shape = shape,
                      !.dx = AlignDiagToShape(tile, shape).dx,
                      !.dy = AlignDiagToShape(tile, shape).dy]

(* Tile.to_pixel_space: Tile(top_l, diag, ..., space=PIXEL, shape=self._shape) *)
ToPixelSpaceKeepingShape(tile) == TileInit(ToPixelSpace(tile), tile.shape)

(* Tile.shape: the known shape, else the diagonal as integers *)
TileShape(tile) == IF tile.shape # <<>> THEN tile.shape ELSE <<tile.dy, tile.dx>>

(* as TileLoad, accepting a difference of up to 2 pixels *)
TileLoadWithinTwo(tile, has_loader, data_shape) ==
    LET expected_shape == IF tile.space = "real"
                          THEN TileShape(ToPixelSpaceKeepingShape(tile))
                          ELSE TileShape(tile)
        max_diff == SetMax({Abs(expected_shape[ax] - data_shape[ax]) : ax \in 1..2})
    IN IF ~has_loader THEN [err |-> "ValueError: no data loader", log |-> <<>>]
       ELSE IF expected_shape # data_shape
       THEN IF max_diff <= 2
            THEN [err |-> "none", log |-> <<"warning: off by 1">>]
            ELSE [err |-> "ValueError: shape", log |-> <<>>]
       ELSE [err |-> "none", log |-> <<>>]

(* Tile.load: the exception raised or "none", and what was logged *)
TileLoad(tile, has_loader, data_shape) ==
    LET expected_shape == IF tile.space = "real"
                          THEN TileShape(ToPixelSpaceKeepingShape(tile))
                          ELSE TileShape(tile)
        max_diff == SetMax({Abs(expected_shape[ax] - data_shape[ax]) : ax \in 1..2})
    IN IF ~has_loader THEN [err |-> "ValueError: no data loader", log |-> <<>>]
       ELSE IF expected_shape # data_shape
       THEN IF max_diff = 1
            THEN [err |-> "none", log |-> <<"warning: off by 1">>]
            ELSE [err |-> "ValueError: shape", log |-> <<>>]
       ELSE [err |-> "none", log |-> <<>>]

(* an entry of the trace: what was done, by whom, with one argument *)
Ev(ev, who, arg) == [ev |-> ev, who |-> who, arg |-> arg]

(* tile.load() called on one tile *)
TileLoadStep ==
    /\ t_pc = "tile_load"
    /\ LET r == TileLoad(t_in.tile, t_in.has_loader, t_in.data_shape)
       IN /\ t_trace' = [k \in 1..Len(r.log) |-> Ev("log", "tile", r.log[k])] \o
                         <<IF r.err = "none" THEN Ev("return", "tile", "data")
                                             ELSE Ev("raise", "tile", r.err)>>
          /\ t_pc' = IF r.err = "none" THEN "returned" ELSE "failed"
    /\ UNCHANGED <<t_in, t_file, t_loop>>
    /\ UNCHANGED <<compVars, placeVars, gridVars>>

(* bounds of the tiles loaded: sides of 2 to MaxSide pixels, loaded data   *)
(* of 0 to MaxSide + 2 pixels per axis                                     *)
MaxSide == 3

LoadShapes == {<<>>} \cup {<<y, x>> : y \in 2..MaxSide, x \in 2..MaxSide}

(* tiles as their creator built them: in real space with a diagonal that   *)
(* need not be a multiple of the pixel size, or in pixel space             *)
LoadTiles ==
    {TileInit([NewTile(0, 0, 0, 0, dx, dy, ps, 1) EXCEPT !.space = sp] @@ [shape |-> <<>>],
              shp) :
        dx \in {4, 5}, dy \in {4}, ps \in {1, 2}, sp \in {"real", "pixel"},
        shp \in LoadShapes}

LoadCalls ==
    {[entry |-> "tile_load", tile |-> tl, has_loader |-> hl, data_shape |-> <<y, x>>] :
        tl \in LoadTiles, hl \in BOOLEAN, y \in 0..(MaxSide + 2), x \in 0..(MaxSide + 2)}

(***************************************************************************)
(* The compute tasks: _task_compute_tools.generic_compute_task (entry      *)
(* "legacy", a pickled tiled image) and fractal/_compute_task              *)
(* .generic_compute_task (entry "fractal", a JSON dump).  The trace lists  *)
(* what a call did: an event names who did it and carries one argument.    *)
(***************************************************************************)

RECURSIVE Pow2(_)
Pow2(k) == IF k = 0 THEN 1 ELSE 2 * Pow2(k - 1)

(* as SleepTime, with the back-off starting at one second *)
SleepTimeFromOne(t) == Pow2(t)

(* sleep_time = 2 ** (t + 1) *)
SleepTime(t) == Pow2(t + 1)

(* the value an exhausted retry loop raises FileNotFoundError with *)
NotFound == "FileNotFoundError"

(* one pass through the for loop of load_tiled_image or of                 *)
(* tiled_image_from_json: what it adds to the trace and whether the file   *)
(* was read; at t = num_retries the loop is over                           *)
LoaderAttempt(t, exists) ==
    IF exists
    THEN [loaded |-> TRUE, events |-> <<Ev("read", "loader", t + 1)>>]
    ELSE [loaded |-> FALSE,
          events |-> <<Ev("missing", "loader", t + 1), Ev("sleep", "loader", SleepTime(t))>>]

(* as RemoveFile, with the file left where it is *)
RemoveFileKeeps(exists) == exists

(* remove_pkl / _remove_json_local_fs: unlink; an exception (the file is   *)
(* already gone) is logged and swallowed                                   *)
RemoveFile(exists) == FALSE

(* the exception the try block of the legacy task ends with, or "none":    *)
(* the stitching pipe, then the writer, which loads the tile               *)
TryBlockError(in) ==
    IF in.stitch_err # "none" THEN in.stitch_err
    ELSE IF in.zarr_exists /\ ~in.overwrite THEN "NgioFileExistsError"
    ELSE TileLoad(in.tile, TRUE, in.data_shape).err

(* load_tiled_image(pickle_path), one loop iteration per step *)
PklLoadStep ==
    /\ t_pc = "pkl_load"
    /\ IF t_in.num_retries < 1
       THEN /\ t_trace' = Append(t_trace, Ev("raise", "loader", "ValueError"))
            /\ t_pc' = "failed"
            /\ UNCHANGED t_loop
       ELSE IF t_loop.loader >= t_in.num_retries
       THEN /\ t_trace' = Append(t_trace, Ev("raise", "loader", NotFound))
            /\ t_pc' = "failed"
            /\ UNCHANGED t_loop
       ELSE LET a == LoaderAttempt(t_loop.loader, t_file)
            IN /\ t_trace' = t_trace \o a.events
               /\ t_pc' = IF a.loaded THEN "try" ELSE "pkl_load"
               /\ t_loop' = [t_loop EXCEPT !.loader = IF a.loaded THEN 0 ELSE @ + 1]
    /\ UNCHANGED <<t_in, t_file>>
    /\ UNCHANGED <<compVars, placeVars, gridVars>>

(* the try block: stitching_pipe = partial(...); write_tiled_image(...) *)
TryBlockStep ==
    /\ t_pc = "try"
    /\ LET err == TryBlockError(t_in)
       IN IF err = "none"
          THEN /\ t_trace' = t_trace \o <<Ev("stitch", "task", "done"),
                                           Ev("write", "task", "done")>>
               /\ t_pc' = "after_try"
          ELSE /\ t_trace' = Append(t_trace, Ev("raised", "try", err))
               /\ t_pc' = "except"
    /\ UNCHANGED <<t_in, t_file, t_loop>>
    /\ UNCHANGED <<compVars, placeVars, gridVars>>

(* except Exception as e: remove_pkl(pickle_path); log; raise e *)
ExceptStep ==
    /\ t_pc = "except"
    /\ t_file' = RemoveFile(t_file)
    /\ t_trace' = t_trace \o <<Ev("remove", "task", t_file),
                                Ev("raise", "task", t_trace[Len(t_trace)].arg)>>
    /\ t_pc' = "failed"
    /\ UNCHANGED <<t_in, t_loop>>
    /\ UNCHANGED <<compVars, placeVars, gridVars>>

(* the plate attributes; remove_pkl(pickle_path); return *)
AfterTryStep ==
    /\ t_pc = "after_try"
    /\ t_file' = RemoveFile(t_file)
    /\ t_trace' = t_trace \o <<Ev("remove", "task", t_file), Ev("return", "task", "updates")>>
    /\ t_pc' = "returned"
    /\ UNCHANGED <<t_in, t_loop>>
    /\ UNCHANGED <<compVars, placeVars, gridVars>>

(* the call has loaded the serialized tiled image *)
HasLoaded == \E k \in 1..Len(t_trace) : t_trace[k].ev = "read"

HasRerun == \E k \in 1..Len(t_trace) : t_trace[k].ev = "rerun"

(* the legacy task is run once more with the same init args *)
RerunStep ==
    /\ t_in.entry = "legacy"
    /\ t_pc \in {"returned", "failed"}
    /\ HasLoaded
    /\ ~HasRerun
    /\ t_trace' = Append(t_trace, Ev("rerun", "caller", t_pc))
    /\ t_pc' = "pkl_load"
    /\ t_loop' = NoRetry
    /\ UNCHANGED <<t_in, t_file>>
    /\ UNCHANGED <<compVars, placeVars, gridVars>>

(* the init task's file becomes visible while a loader is retrying *)
FileAppears ==
    /\ t_pc \in {"pkl_load", "json_load", "json_call"}
    /\ t_in.late
    /\ ~t_file
    /\ ~HasLoaded
    /\ t_file' = TRUE
    /\ UNCHANGED <<t_in, t_pc, t_trace, t_loop>>
    /\ UNCHANGED <<compVars, placeVars, gridVars>>

(* for t in range(3) *)
TaskAttempts == 3

(* for t in range(3): try: tiled_image_from_json(...) ... else: raise *)
JsonCallStep ==
    /\ t_pc = "json_call"
    /\ IF t_loop.task < TaskAttempts
       THEN /\ t_trace' = Append(t_trace, Ev("call", "task", t_loop.task + 1))
            /\ t_pc' = "json_load"
            /\ t_loop' = [t_loop EXCEPT !.loader = 0]
       ELSE /\ t_trace' = Append(t_trace, Ev("raise", "task", NotFound))
            /\ t_pc' = "failed"
            /\ UNCHANGED t_loop
    /\ UNCHANGED <<t_in, t_file>>
    /\ UNCHANGED <<compVars, placeVars, gridVars>>

(* tiled_image_from_json, one loop iteration per step; its                 *)
(* FileNotFoundError is caught by the task, which sleeps and goes on       *)
JsonLoadStep ==
    /\ t_pc = "json_load"
    /\ IF t_in.num_retries < 1
       THEN /\ t_trace' = Append(t_trace, Ev("raise", "task", "ValueError"))
            /\ t_pc' = "failed"
            /\ UNCHANGED t_loop
       ELSE IF t_loop.loader >= t_in.num_retries
       THEN /\ t_trace' = t_trace \o <<Ev("raised", "loader", NotFound),
                                        Ev("sleep", "task", SleepTime(t_loop.task))>>
            /\ t_pc' = "json_call"
            /\ t_loop' = [t_loop EXCEPT !.task = @ + 1]
       ELSE LET a == LoaderAttempt(t_loop.loader, t_file)
            IN /\ t_trace' = t_trace \o a.events
               /\ t_pc' = IF a.loaded THEN "pipeline" ELSE "json_load"
               /\ t_loop' = [t_loop EXCEPT !.loader = IF a.loaded THEN 0 ELSE @ + 1]
    /\ UNCHANGED <<t_in, t_file>>
    /\ UNCHANGED <<compVars, placeVars, gridVars>>

(* build_default_registration_pipeline; tiled_image_creation_pipeline *)
PipelineStep ==
    /\ t_pc = "pipeline"
    /\ IF t_in.pipeline_err = "none"
       THEN /\ t_trace' = Append(t_trace, Ev("pipeline", "task", "done"))
            /\ t_pc' = "remove_json"
       ELSE /\ t_trace' = t_trace \o <<Ev("pipeline", "task", t_in.pipeline_err),
                                        Ev("raise", "task", t_in.pipeline_err)>>
            /\ t_pc' = "failed"
    /\ UNCHANGED <<t_in, t_file, t_loop>>
    /\ UNCHANGED <<compVars, placeVars, gridVars>>

(* remove_json(...); return _build_image_list_update(...) *)
RemoveJsonStep ==
    /\ t_pc = "remove_json"
    /\ t_file' = RemoveFile(t_file)
    /\ t_trace' = t_trace \o <<Ev("remove", "task", t_file), Ev("return", "task", "updates")>>
    /\ t_pc' = "returned"
    /\ UNCHANGED <<t_in, t_loop>>
    /\ UNCHANGED <<compVars, placeVars, gridVars>>

(* CONVERTERS_TOOLS_NUM_RETRIES: unusable, the smallest, and the default *)
RetrySettings == {0, 1, 2, 5}

LegacyCalls ==
    {[entry |-> "legacy", num_retries |-> n, late |-> l, file |-> f,
      stitch_err |-> se, zarr_exists |-> ze, overwrite |-> ow,
      tile |-> tl, data_shape |-> <<y, 2>>] :
        n \in RetrySettings, l \in BOOLEAN, f \in BOOLEAN,
        se \in {"none", "ValueError"}, ze \in BOOLEAN, ow \in BOOLEAN,
        tl \in {t \in LoadTiles : t.shape = <<2, 2>> /\ t.space = "pixel" /\ t.ps = 1
                                    /\ t.dx = 2},
        y \in 2..4}

FractalCalls ==
    {[entry |-> "fractal", num_retries |-> n, late |-> l, file |-> f, pipeline_err |-> pe] :
        n \in RetrySettings, l \in BOOLEAN, f \in BOOLEAN,
        pe \in {"none", "ValueError"}}

InitTask ==
    /\ \/ t_in \in LoadCalls
       \/ t_in \in LegacyCalls
       \/ t_in \in FractalCalls
    /\ t_pc = CASE t_in.entry = "tile_load" -> "tile_load"
                 [] t_in.entry = "legacy" -> "pkl_load"
                 [] OTHER -> "json_call"
    /\ t_file = IF t_in.entry = "tile_load" THEN FALSE ELSE t_in.file
    /\ t_trace = <<>>
    /\ t_loop = NoRetry
    /\ CompIdle
    /\ PlaceIdle
    /\ GridIdle

NextTask ==
    \/ TileLoadStep
    \/ PklLoadStep
    \/ TryBlockStep
    \/ ExceptStep
    \/ AfterTryStep
    \/ RerunStep
    \/ FileAppears
    \/ JsonCallStep
    \/ JsonLoadStep
    \/ PipelineStep
    \/ RemoveJsonStep

SpecTask == InitTask /\ [][NextTask]_vars

(***************************************************************************)
(* The shape tolerance of a tile with a known shape.                       *)
(***************************************************************************)

(* a finished tile.load() of a tile that has a loader and a known shape *)
KnownShapeLoadDone ==
    /\ t_in.entry = "tile_load"
    /\ t_pc \in {"returned", "failed"}
    /\ t_in.has_loader
    /\ t_in.tile.shape # <<>>

(* the largest difference, over the axes, of the loaded data's shape to    *)
(* the known shape                                                         *)
DiffToKnownShape ==
    SetMax({Abs(t_in.tile.shape[ax] - t_in.data_shape[ax]) : ax \in 1..2})

Warned == \E k \in 1..Len(t_trace) : t_trace[k] = Ev("log", "tile", "warning: off by 1")

(* C18: for a tile with a known shape, in either space, the conversion to  *)
(* pixel space reproduces the known shape, a load whose data differs from  *)
(* it by at most 1 pixel per axis is accepted, a difference of exactly 1   *)
(* (and no other) is logged, and a difference of more than 1 pixel on any  *)
(* axis ends the load with an error                                        *)
C18_ShapeTolerance ==
    KnownShapeLoadDone =>
        /\ t_in.tile.space = "real" =>
               TileShape(ToPixelSpaceKeepingShape(t_in.tile)) = t_in.tile.shape
        /\ (DiffToKnownShape <= 1) <=> (t_pc = "returned")
        /\ (DiffToKnownShape = 1) <=> Warned
        /\ (DiffToKnownShape > 1) <=> (t_trace = <<Ev("raise", "tile", "ValueError: shape")>>)

(* a real-space tile of known shape (2, 3) with pixel size 2 was loaded    *)
(* with data of shape (2, 4): accepted with a warning                      *)
C18_Witness ==
    /\ KnownShapeLoadDone
    /\ t_in.tile.space = "real"
    /\ t_in.tile.ps = 2
    /\ t_in.tile.shape = <<2, 3>>
    /\ t_in.data_shape = <<2, 4>>
    /\ t_pc = "returned"
    /\ Warned

(***************************************************************************)
(* The serialized tiled image after the legacy task.                       *)
(***************************************************************************)

(* the trace holds an event ev by who *)
Did(ev, who) == \E k \in 1..Len(t_trace) : t_trace[k].ev = ev /\ t_trace[k].who = who

(* the first run of the legacy task loaded the tiled image and has ended *)
FirstRunOver ==
    /\ t_in.entry = "legacy"
    /\ HasLoaded
    /\ HasRerun \/ t_pc \in {"returned", "failed"}

(* what the second run has done so far *)
RerunEvents ==
    LET r == CHOOSE k \in 1..Len(t_trace) : t_trace[k].ev = "rerun"
    IN SubSeq(t_trace, r + 1, Len(t_trace))

(* the second run only found the file missing, slept and, in the end,      *)
(* raised FileNotFoundError                                                *)
RerunFindsNoFile ==
    /\ \A k \in 1..Len(RerunEvents) :
          /\ RerunEvents[k].who = "loader"
          /\ RerunEvents[k].ev \in {"missing", "sleep", "raise"}
          /\ RerunEvents[k].ev = "raise" => RerunEvents[k].arg \in {NotFound, "ValueError"}
    /\ t_pc \in {"pkl_load", "failed"}
    /\ (t_pc = "failed" /\ t_in.num_retries >= 1) =>
          /\ RerunEvents[Len(RerunEvents)].ev = "raise"
          /\ RerunEvents[Len(RerunEvents)].arg = NotFound

(* C19: once the legacy task has loaded the pickled tiled image and has    *)
(* ended, by returning or by an exception of the stitching or the writing, *)
(* the pickle file is gone, and a second run with the same init args reads *)
(* nothing, processes nothing and ends with FileNotFoundError              *)
C19_PickleRemovedOnEveryExit ==
    FirstRunOver =>
        /\ ~t_file
        /\ HasRerun => RerunFindsNoFile

(* the writing raised in the first run, the second run has ended with      *)
(* FileNotFoundError                                                       *)
C19_Witness ==
    /\ FirstRunOver
    /\ Did("raised", "try")
    /\ Did("remove", "task")
    /\ HasRerun
    /\ t_pc = "failed"
    /\ RerunEvents[Len(RerunEvents)].arg = NotFound
    /\ ~t_file

(***************************************************************************)
(* The retry loop of the compute task.                                     *)
(***************************************************************************)

(* a call of the new compute task whose loader can be used *)
FractalRun == t_in.entry = "fractal" /\ t_in.num_retries >= 1

(* the attempts (calls of tiled_image_from_json) made up to trace index i *)
AttemptsUpTo(i) == Cardinality({j \in 1..i : t_trace[j].ev = "call"})

IsAt(i, ev, who) == i <= Len(t_trace) /\ t_trace[i].ev = ev /\ t_trace[i].who = who

(* attempt k failed at index i with FileNotFoundError: the task sleeps     *)
(* 2^k seconds, then attempts again if k < 3 and raises if k = 3           *)
FailureFollowedUp(i) ==
    LET k == AttemptsUpTo(i)
    IN /\ IsAt(i + 1, "sleep", "task")
       /\ t_trace[i + 1].arg = Pow2(k)
       /\ i + 2 <= Len(t_trace) =>
             IF k < 3
             THEN IsAt(i + 2, "call", "task") /\ t_trace[i + 2].arg = k + 1
             ELSE /\ IsAt(i + 2, "raise", "task")
                  /\ t_trace[i + 2].arg = NotFound
                  /\ Len(t_trace) = i + 2
                  /\ t_pc = "failed"

(* attempt k succeeded at index i: no further attempt, the pipeline is next *)
SuccessFollowedUp(i) ==
    /\ AttemptsUpTo(Len(t_trace)) = AttemptsUpTo(i)
    /\ i + 1 <= Len(t_trace) => IsAt(i + 1, "pipeline", "task")
    /\ i = Len(t_trace) => t_pc = "pipeline"

(* C20: the task calls the loader at most 3 times; a FileNotFoundError of  *)
(* attempt k is followed by a sleep of 2^k seconds and, for k < 3, by      *)
(* attempt k + 1; a success of attempt k ends the retrying after exactly k *)
(* attempts and the pipeline runs; after the third failure the task raises *)
(* FileNotFoundError, and has neither run the pipeline nor removed the file *)
C20_RetryThreeTimes ==
    FractalRun =>
        /\ AttemptsUpTo(Len(t_trace)) <= 3
        /\ \A i \in 1..Len(t_trace) :
              /\ IsAt(i, "call", "task") => t_trace[i].arg = AttemptsUpTo(i)
              /\ IsAt(i, "raised", "loader") => FailureFollowedUp(i)
              /\ IsAt(i, "read", "loader") => SuccessFollowedUp(i)
        /\ (t_pc = "failed" /\ ~HasLoaded) =>
              /\ AttemptsUpTo(Len(t_trace)) = 3
              /\ ~Did("pipeline", "task")
              /\ ~Did("remove", "task")
              /\ t_file = t_in.file \/ t_in.late

(* the first two attempts failed, the third loaded the file and the task   *)
(* returned after the back-offs of 2 and 4 seconds                         *)
C20_Witness ==
    /\ FractalRun
    /\ t_pc = "returned"
    /\ AttemptsUpTo(Len(t_trace)) = 3
    /\ SelectSeq(t_trace, LAMBDA e : e.ev = "sleep" /\ e.who = "task")
         = <<Ev("sleep", "task", 2), Ev("sleep", "task", 4)>>
    /\ Did("pipeline", "task")

(***************************************************************************)
(* C21: the slant check of the grid analysis                               *)
(***************************************************************************)

(* check_if_regular_grid got past the length and offset tests of a list of *)
(* more than 2 tiles, so its result is the result of the slant check       *)
SlantCheckDecided ==
    /\ g_pc # "new"
    /\ Len(g_in.tiles) > 2
    /\ g_out.err \in {"none", "The grid is slanted"}

(* the displacement of tile k from the reference tile, per axis *)
DisplacedOnX(k) == g_in.tiles[k].x - g_in.tiles[1].x >= 1
DisplacedOnY(k) == g_in.tiles[k].y - g_in.tiles[1].y >= 1

(* C21 as stated: with more than 2 tiles the slant check passes if and     *)
(* only if some tile other than the reference is displaced from it by at   *)
(* least 1e-6 on both the x axis and the y axis                            *)
C21_PassesIffDisplacedOnBothAxes ==
    SlantCheckDecided =>
        (g_out.err = "none" <=>
            \E k \in 2..Len(g_in.tiles) : DisplacedOnX(k) /\ DisplacedOnY(k))

(* C21: with more than 2 tiles the slant check passes if and only if some  *)
(* tile other than the reference has a signed displacement from it below   *)
(* 1e-6 on the x axis or on the y axis; the grid is declared slanted       *)
(* exactly when every other tile is displaced by at least 1e-6 on both     *)
C21_PassesIffAlignedOnOneAxis ==
    SlantCheckDecided =>
        /\ g_out.err = "none" <=>
              \E k \in 2..Len(g_in.tiles) : ~DisplacedOnX(k) \/ ~DisplacedOnY(k)
        /\ g_out.err = "The grid is slanted" <=>
              \A k \in 2..Len(g_in.tiles) : DisplacedOnX(k) /\ DisplacedOnY(k)

(* three tiles on a diagonal were declared slanted although each of them   *)
(* is displaced from the reference on both axes                            *)
C21_Witness ==
    /\ SlantCheckDecided
    /\ g_out.err = "The grid is slanted"
    /\ Len(g_in.tiles) = 3
    /\ \A k \in 2..3 : DisplacedOnX(k) /\ DisplacedOnY(k)

(***************************************************************************)
(* C22: what follows a relocation of the free mode                         *)
(***************************************************************************)

(* a step of the pair scan that relocated tiles[j] *)
Relocation == FreeExamine /\ f_loop'.n_overlap = f_loop.n_overlap + 1

(* the return of resolve_random_tiles_overlap *)
FreeReturn == p_pc = "free_scan" /\ p_mode' = "free"

(* C22 as stated: every relocation is immediately followed by a restart of *)
(* the pair scan, no further pair of the interrupted pass is examined      *)
(* before the restart, and the procedure returns only after one complete   *)
(* pass in which no pair overlapped                                        *)
C22_RelocationRestartsScan ==
    [][/\ Relocation => f_loop'.i >= Len(p_tiles')
       /\ FreeExamine => f_loop.n_overlap = 0
       /\ FreeReturn => f_loop.i >= Len(p_tiles) /\ f_loop.n_overlap = 0]_vars

(* C22: a relocation of tiles[j] ends only the scan of the pairs of the    *)
(* reference tile i: the same pass goes on, without sorting, with the      *)
(* pairs of tile i + 1; the tiles are sorted and the scan starts again     *)
(* from the first pair only when the pass is over and has relocated a      *)
(* tile; the procedure returns only after one complete pass in which no    *)
(* pair overlapped                                                         *)
C22_RelocationEndsInnerScan ==
    [][/\ Relocation =>
            /\ p_pc' = "free_scan"
            /\ f_loop'.i = f_loop.i + 1
            /\ f_loop'.j = f_loop.i + 2
            /\ \A k \in 1..Len(p_tiles) : k # f_loop.j + 1 => p_tiles'[k] = p_tiles[k]
       /\ FreePassStart =>
            \/ f_loop.n_overlap = NpInf
            \/ f_loop.i >= Len(p_tiles) /\ f_loop.n_overlap > 0
       /\ FreeReturn =>
            /\ f_loop.i >= Len(p_tiles)
            /\ f_loop.n_overlap = 0
            /\ \A a, b \in 1..Len(p_tiles) :
                   a < b => ~IsOverlappingXY(p_tiles[a], p_tiles[b])]_vars

(* a pass that has relocated a tile is examining a further pair *)
C22_Witness ==
    /\ p_pc = "free_scan"
    /\ f_loop.n_overlap > 0
    /\ f_loop.n_overlap # NpInf
    /\ f_loop.i < Len(p_tiles)
    /\ f_loop.j < Len(p_tiles)

(***************************************************************************)
(* C23: the inverted index against a scan of all regions                   *)
(***************************************************************************)

(* the bounds of the chunk with index chunk_idx *)
ChunkBoundsOf(chunk_idx) ==
    LET chunk_ranges == BuildChunkRanges(c_in.shape, c_in.chunks)
    IN [ax \in 1..Len(chunk_ranges) |-> chunk_ranges[ax][chunk_idx[ax] + 1]]

(* the regions the plan registers against a chunk: the loaders its task names *)
RegisteredRegions(chunk_idx) ==
    LET task == graph.output_layer[OutKey(graph.token, chunk_idx)]
    IN [k \in 1..Len(task.refs) |-> task.refs[k].li]

(* the region li and the chunk have a non-empty intersection on every axis *)
OverlapsChunk(li, chunk_idx) ==
    LET lb == AllLoaderBounds(c_in.regions, c_in.shape)[li + 1]
        cb == ChunkBoundsOf(chunk_idx)
    IN \A ax \in 1..Len(cb) : Max(cb[ax][1], lb[ax][1]) < Min(cb[ax][2], lb[ax][2])

(* the scan of all regions for one chunk, in input order *)
NaiveScan(chunk_idx) ==
    SelectSeq([k \in 1..Len(c_in.regions) |-> k - 1],
              LAMBDA li : OverlapsChunk(li, chunk_idx))

PlanBuilt == c_pc # "new" /\ graph.error = "none"

(* C23: for every output chunk the regions registered against it by the    *)
(* inverted index are exactly the regions whose bounds have a non-empty    *)
(* intersection with the chunk on every axis, in input order               *)
C23_IndexAgreesWithNaiveScan ==
    PlanBuilt =>
        \A chunk_idx \in ChunkIndices(BuildChunkRanges(c_in.shape, c_in.chunks)) :
            RegisteredRegions(chunk_idx) = NaiveScan(chunk_idx)

(***************************************************************************)
(* C24: loader invocations of one field-of-view write                      *)
(***************************************************************************)

(* C24: in the write of one field of view each tile's image loader is      *)
(* invoked at most once, counting the invocations made while the per-FOV   *)
(* array is built and those of its materialization                         *)
C24_TileReadAtMostOncePerWrite ==
    c_in.entry = "fov" => \A i \in DOMAIN calls : calls[i] <= 1

(***************************************************************************)
(* C25: grid analysis of an empty and of a single-tile list                *)
(***************************************************************************)

(* the grid analysis ran on a list of at most one tile *)
DegenerateAnalysed == p_grid # NoGridResult /\ Len(p_in.tiles) <= 1

(* C25 as stated: for an empty list and for a single-tile list the grid    *)
(* analysis reports a failure reason and yields no usable GridSetup        *)
C25_DegenerateInputFails ==
    DegenerateAnalysed => p_grid.err # "none" /\ p_grid.setup = EmptyGridSetup

(* C25: the analysis of the stitching pipeline reports "Empty list of      *)
(* tiles" or "Only one tile" with an empty GridSetup; the analysis of the  *)
(* registration pipeline raises ValueError for an empty list and accepts a *)
(* single tile as a trivial grid: its GridSetup has the lengths of the     *)
(* tile and offsets of 1                                                   *)
C25_DegenerateInputByPipeline ==
    DegenerateAnalysed =>
        IF p_in.entry \in {"tiling", "registration"}
        THEN IF Len(p_in.tiles) = 0
             THEN p_grid.err = "ValueError" /\ p_grid.setup = EmptyGridSetup
             ELSE /\ p_grid.err = "none"
                  /\ p_grid.setup.length_x = p_tiles[1].dx
                  /\ p_grid.setup.length_y = p_tiles[1].dy
                  /\ p_grid.setup.offset_x = 1
                  /\ p_grid.setup.offset_y = 1
        ELSE /\ p_grid.err = (IF Len(p_in.tiles) = 0 THEN "Empty list of tiles"
                              ELSE "Only one tile")
             /\ p_grid.setup = EmptyGridSetup

(* the stitching analysis refused a single tile *)
C25_Witness ==
    /\ DegenerateAnalysed
    /\ p_in.entry \in {"pipe", "resolve"}
    /\ Len(p_in.tiles) = 1
    /\ p_grid.err = "Only one tile"

(***************************************************************************)
(* C26: termination of the free mode                                       *)
(***************************************************************************)

InFreeMode == p_pc \in {"free_pass", "free_scan"}

(* the free mode returned its tiles and no pair of them overlaps *)
FreeReturnedClean ==
    /\ ~InFreeMode
    /\ p_mode = "free"
    /\ \A a, b \in 1..Len(p_tiles) : a < b => ~IsOverlappingXY(p_tiles[a], p_tiles[b])

SnapSucceeded == g_pc \in {"snapped", "rechecked", "resnapped"} /\ g_snap.err = "none"

(* how many output tiles of the snap derive from the input tile k *)
TimesPlaced(k) ==
    Cardinality({q \in 1..Len(g_snap.tiles) : g_snap.tiles[q].id = g_in.tiles[k].id})

(* C27: whenever the grid snap returns, every input tile appears exactly   *)
(* once in its output and no two output tiles share a grid position        *)
C27_SnapIsOneToOne ==
    SnapSucceeded =>
        /\ \A k \in 1..Len(g_in.tiles) : TimesPlaced(k) = 1
        /\ \A a, b \in 1..Len(g_snap.tiles) :
               a # b => \/ g_snap.tiles[a].x # g_snap.tiles[b].x
                        \/ g_snap.tiles[a].y # g_snap.tiles[b].y

(***************************************************************************)
(* C28: the tile count across the pixel-gap closing                        *)
(***************************************************************************)

(* standard_stitching_pipe returned after the pixel-gap closing *)
GapsClosed == p_in.entry = "pipe" /\ p_pc = "returned" /\ p_mode = "grid"

(* how many tiles of the pipeline's output derive from the input tile k *)
TimesReturned(k) ==
    Cardinality({q \in 1..Len(p_tiles) : p_tiles[q].id = p_in.tiles[k].id})

(* C28 as stated: the pixel-gap closing of a snapped grid returns exactly  *)
(* one tile per input tile, so the output of the pipeline is as long as    *)
(* its input                                                               *)
C28_PixelGapsKeepTileSet ==
    GapsClosed =>
        /\ Len(p_tiles) = Len(p_in.tiles)
        /\ \A k \in 1..Len(p_in.tiles) : TimesReturned(k) = 1

(***************************************************************************)
(* C29: node keys of two arrays with the same bounds and other loaders     *)
(***************************************************************************)

(* the keys two plans have in common *)
SharedKeys(g1, g2) ==
    (DOMAIN g1.loader_layer \cap DOMAIN g2.loader_layer)
        \cup (DOMAIN g1.output_layer \cap DOMAIN g2.output_layer)

(* C29: two lazy arrays built with equal shape, chunk shape, dtype, fill   *)
(* value and region bounds but different loaders share no loader key and   *)
(* no output key                                                           *)
C29_NoSharedNodeKeys ==
    c_pc = "rebuilt" => SharedKeys(graph, replan.graph) = {}

(***************************************************************************)
(* C30: several workers remove their own files from one directory.  The    *)
(* init task empties a directory an earlier run left behind and writes one *)
(* file per worker.  Each call of remove_pkl is three system calls: unlink, *)
(* iterdir, rmdir; _remove_json_local_fs has the same body after            *)
(* local_url_to_path, which creates the parent directory when it is        *)
(* missing.  Between any two system calls the other workers may run.       *)
(* t_loop holds the statement each worker has reached, t_file the          *)
(* directory and the files in it, t_trace the errors the calls logged or   *)
(* raised.                                                                 *)
(***************************************************************************)
MaxWorkers == 3

(* the file of worker w: the workers' files are distinct *)
FileOf(w) == w

(* except Exception as e: the handler catches the instances of Exception   *)
(* and of its subclasses.  The classes that derive from BaseException and  *)
(* not from Exception pass through it: BaseException itself,               *)
(* BaseExceptionGroup, GeneratorExit, KeyboardInterrupt, SystemExit and    *)
(* asyncio.CancelledError.  An exception is named by its class; base      *)
(* gives the base class of the built-in classes that do not derive from    *)
(* Exception directly; every other class (the other built-in classes, the  *)
(* classes of a library or of this package) derives from Exception.        *)
CaughtByHandler(exc) ==
    LET base == [c \in {"BaseExceptionGroup", "GeneratorExit", "KeyboardInterrupt",
                        "SystemExit", "CancelledError", "Exception"} |-> "BaseException"]
                \* ExceptionGroup has two bases, BaseExceptionGroup and Exception
                @@ [c \in {"ExceptionGroup"} |-> "Exception"]
                @@ [c \in {"FileNotFoundError", "FileExistsError", "PermissionError",
                           "NotADirectoryError", "IsADirectoryError", "InterruptedError",
                           "BlockingIOError", "ChildProcessError", "ConnectionError",
                           "ProcessLookupError", "TimeoutError"} |-> "OSError"]
                @@ [c \in {"BrokenPipeError", "ConnectionAbortedError",
                           "ConnectionRefusedError", "ConnectionResetError"} |->
                       "ConnectionError"]
                @@ [c \in {"IndexError", "KeyError"} |-> "LookupError"]
                @@ [c \in {"FloatingPointError", "OverflowError", "ZeroDivisionError"} |->
                       "ArithmeticError"]
                @@ [c \in {"NotImplementedError", "RecursionError"} |-> "RuntimeError"]
                @@ [c \in {"UnicodeError"} |-> "ValueError"]
                @@ [c \in {"UnicodeDecodeError", "UnicodeEncodeError",
                           "UnicodeTranslateError"} |-> "UnicodeError"]
                @@ [c \in {"ModuleNotFoundError"} |-> "ImportError"]
                @@ [c \in {"UnboundLocalError"} |-> "NameError"]
                @@ [c \in {"IndentationError"} |-> "SyntaxError"]
                @@ [c \in {"TabError"} |-> "IndentationError"]
        BaseOf(c) == IF c = "BaseException" THEN c
                     ELSE IF c \in DOMAIN base THEN base[c] ELSE "Exception"
        \* the classes of the method resolution order of c, c included: no
        \* built-in class is more than five steps below BaseException
        mro(c) == {c, BaseOf(c), BaseOf(BaseOf(c)), BaseOf(BaseOf(BaseOf(c))),
                   BaseOf(BaseOf(BaseOf(BaseOf(c)))),
                   BaseOf(BaseOf(BaseOf(BaseOf(BaseOf(c)))))}
    IN "Exception" \in mro(exc)

(* what a worker does with an exception of its try block *)
HandlerEvent(w, exc) ==
    IF CaughtByHandler(exc) THEN Ev("log", w, exc) ELSE Ev("raise", w, exc)

(* as DirIsEmpty, for a call that never removes the directory *)
DirNeverEmpty(files) == FALSE

(* not list(path.parent.iterdir()) *)
DirIsEmpty(files) == files = {}

(* stale: an earlier run left the directory behind with a file in it *)
CleanCalls ==
    {[entry |-> "cleanup", kind |-> k, workers |-> n, stale |-> st] :
        k \in {"pkl", "json"}, n \in 1..MaxWorkers, st \in BOOLEAN}

(* before the init task: no directory, or the one of an earlier run *)
InitClean ==
    /\ t_in \in CleanCalls
    /\ t_pc = "init"
    /\ t_file = IF t_in.stale THEN [dir |-> TRUE, files |-> {FileOf(0)}]
                 ELSE [dir |-> FALSE, files |-> {}]
    /\ t_trace = <<>>
    /\ t_loop = [w \in 1..t_in.workers |-> "waiting"]
    /\ CompIdle
    /\ PlaceIdle
    /\ GridIdle

(* remove_pkl_dir / cleanup_if_exists: every file of an existing directory *)
(* is unlinked and the directory removed                                   *)
RemoveDir(file) == IF file.dir THEN [dir |-> FALSE, files |-> {}] ELSE file

(* the init task: the directory is reinitialized, then create_pkl /        *)
(* dump_to_json writes one file per tiled image; the workers start after   *)
(* the init task has returned                                              *)
InitTaskStep ==
    /\ t_pc = "init"
    /\ t_file' = [dir |-> TRUE,
                  files |-> RemoveDir(t_file).files \cup {FileOf(w) : w \in DOMAIN t_loop}]
    /\ t_loop' = [w \in DOMAIN t_loop |->
                     IF t_in.kind = "json" THEN "resolve_path" ELSE "unlink"]
    /\ t_pc' = "cleanup"
    /\ UNCHANGED <<t_in, t_trace, compVars, placeVars, gridVars>>

(* json_path = local_url_to_path(url): path.parent.mkdir(parents=True,     *)
(* exist_ok=True)                                                          *)
LocalUrlToPath(w) ==
    /\ t_pc = "cleanup"
    /\ t_loop[w] = "resolve_path"
    /\ t_file' = [t_file EXCEPT !.dir = TRUE]
    /\ t_loop' = [t_loop EXCEPT ![w] = "unlink"]
    /\ UNCHANGED <<t_in, t_pc, t_trace, compVars, placeVars, gridVars>>

(* path.unlink() *)
Unlink(w) ==
    /\ t_pc = "cleanup"
    /\ t_loop[w] = "unlink"
    /\ IF t_file.dir /\ FileOf(w) \in t_file.files
       THEN /\ t_file' = [t_file EXCEPT !.files = @ \ {FileOf(w)}]
            /\ t_loop' = [t_loop EXCEPT ![w] = "iterdir"]
            /\ UNCHANGED t_trace
       ELSE /\ t_trace' = Append(t_trace, HandlerEvent(w, NotFound))
            /\ t_loop' = [t_loop EXCEPT ![w] = "returned"]
            /\ UNCHANGED t_file
    /\ UNCHANGED <<t_in, t_pc, compVars, placeVars, gridVars>>

(* if not list(path.parent.iterdir()) *)
Iterdir(w) ==
    /\ t_pc = "cleanup"
    /\ t_loop[w] = "iterdir"
    /\ IF ~t_file.dir
       THEN /\ t_trace' = Append(t_trace, HandlerEvent(w, NotFound))
            /\ t_loop' = [t_loop EXCEPT ![w] = "returned"]
       ELSE /\ t_loop' = [t_loop EXCEPT ![w] =
                             IF DirIsEmpty(t_file.files) THEN "rmdir" ELSE "returned"]
            /\ UNCHANGED t_trace
    /\ UNCHANGED <<t_in, t_pc, t_file, compVars, placeVars, gridVars>>

(* path.parent.rmdir() *)
Rmdir(w) ==
    /\ t_pc = "cleanup"
    /\ t_loop[w] = "rmdir"
    /\ IF ~t_file.dir
       THEN /\ t_trace' = Append(t_trace, HandlerEvent(w, NotFound))
            /\ UNCHANGED t_file
       ELSE IF t_file.files # {}
       THEN /\ t_trace' = Append(t_trace, HandlerEvent(w, "OSError"))
            /\ UNCHANGED t_file
       ELSE /\ t_file' = [t_file EXCEPT !.dir = FALSE]
            /\ UNCHANGED t_trace
    /\ t_loop' = [t_loop EXCEPT ![w] = "returned"]
    /\ UNCHANGED <<t_in, t_pc, compVars, placeVars, gridVars>>

ResolvePathStep == \E w \in DOMAIN t_loop : LocalUrlToPath(w)

UnlinkStep == \E w \in DOMAIN t_loop : Unlink(w)

IterdirStep == \E w \in DOMAIN t_loop : Iterdir(w)

RmdirStep == \E w \in DOMAIN t_loop : Rmdir(w)

NextClean ==
    \/ InitTaskStep
    \/ ResolvePathStep
    \/ UnlinkStep
    \/ IterdirStep
    \/ RmdirStep

SpecClean == InitClean /\ [][NextClean]_vars

AllReturned == \A w \in DOMAIN t_loop : t_loop[w] = "returned"

(* C30: under any interleaving of the workers' removals no call raises to  *)
(* its caller, and once all calls have returned none of the files remains  *)
(* and the directory has been removed                                      *)
C30_ConcurrentCleanup ==
    t_pc = "cleanup" =>
        /\ \A i \in DOMAIN t_trace : t_trace[i].ev # "raise"
        /\ AllReturned => (t_file.files = {} /\ ~t_file.dir)

(* three workers have returned; two of them lost the race for the          *)
(* directory and logged the error of rmdir or of iterdir                   *)
C30_Witness ==
    /\ t_pc = "cleanup"
    /\ t_in.workers = 3
    /\ AllReturned
    /\ Len(t_trace) = 2
    /\ t_file = [dir |-> FALSE, files |-> {}]

====
